---- MODULE Spec2Model ----
(***************************************************************************)
(* The Dell support assistant's control loop (chatbot_backend): the        *)
(* LangGraph state graph built by build_graph, its node functions, its     *)
(* routing functions, the state reducers and the two CSV writers.          *)
(*                                                                         *)
(* Conventions.                                                            *)
(*  - AgentState is the record `state`; a node function is an operator     *)
(*    that returns the partial dict the node returns, and Merge applies    *)
(*    it to the state the way the graph runtime does (reducers for         *)
(*    rag_history and messages, overwrite for every other key).            *)
(*  - A Python str is a sequence of tokens: "" is <<>>, an f-string is the *)
(*    concatenation of its pieces.  `not s` is s = <<>>.                   *)
(*  - An Optional value is a sequence of length 0 (None) or 1.             *)
(*  - messages keeps the role of each message; the content is read only    *)
(*    by the oracle prompts and by print.                                  *)
(*  - An oracle call (structured_llm.invoke inside its retry loop) yields  *)
(*    None or a response of the call site's schema.  Spec takes the loop   *)
(*    as one step of the node; OracleSpec runs it attempt by attempt.      *)
(***************************************************************************)
EXTENDS Integers, Sequences, FiniteSets, TLC

VARIABLES
    state,        \* AgentState, the dict threaded through the graph
    node,         \* the node the runtime executes next, "END" or "ERROR"
    trace,        \* the nodes executed so far, in order (one per super-step)
    support_log,  \* rows of logs/support_log.csv
    tickets,      \* rows of logs/tickets.csv
    oracle,       \* the last oracle call that returned: its node and its result
    retry,        \* the retry loop around structured_llm.invoke: its locals
    log_files,    \* the files that exist in logs/
    writers       \* the calls of write_support_log and write_ticket in progress
                  \* in sessions that run in parallel: their locals

vars == <<state, node, trace, support_log, tickets, oracle, retry, log_files, writers>>

-----------------------------------------------------------------------------
(* Program constants *)

MAX_GATHERER_ATTEMPTS == 3
MAX_RETRIEVAL_ATTEMPTS == 3
PDF_TOC_PAGE_THRESHOLD == 10
\* app.invoke(initial_state) passes no config, so the graph runtime applies
\* its default recursion limit of 25 super-steps.
RecursionLimit == 25

-----------------------------------------------------------------------------
(* Values drawn by the environment: user input, oracle responses *)

None == <<>>
Some(x) == <<x>>
OracleOutcomes(Responses) == {None} \cup {Some(r) : r \in Responses}

Products == {"general", "latitude-5420"}
Questions == {<<"no display on boot">>}
FollowUps == {<<"What do you see on the screen?">>}
SearchQuery1 == <<"latitude no display troubleshooting">>
Gaps == {<<"missing reset steps">>}
Answers == {<<>>, <<"Reseat the memory modules.">>}
\* What the user types at the clarification prompt, as input() returns it
Clarifications ==
    {<<>>, <<" ">>, <<"It beeps three times">>, <<" ", "It beeps three times", " ">>}
ClarificationGaps == {<<"beep code meaning">>}

GathererResponses ==
    {[has_enough_info |-> FALSE, follow_up_question |-> f,
      classified_question |-> q] : f \in FollowUps, q \in {<<>>} \cup Questions}
    \cup {[has_enough_info |-> TRUE, follow_up_question |-> <<>>,
           classified_question |-> q] : q \in Questions}
RetrieverResponses == {[search_query |-> SearchQuery1]}
AssessmentResponses ==
    {[is_sufficient |-> TRUE, information_gap |-> <<>>]}
    \cup {[is_sufficient |-> FALSE, information_gap |-> g] : g \in Gaps}
FormulatedResponses == {[answer |-> a] : a \in Answers}
ClarificationResponses ==
    {[is_actionable |-> FALSE, information_gap |-> g] : g \in {<<>>} \cup ClarificationGaps}
    \cup {[is_actionable |-> TRUE, information_gap |-> g] : g \in ClarificationGaps}
FeedbackResponses == [is_satisfied : BOOLEAN, is_uncertain : BOOLEAN]
TOCResponses ==
    {[has_toc |-> FALSE, relevant_pages |-> <<>>, most_relevant_section_title |-> <<>>],
     [has_toc |-> TRUE, relevant_pages |-> <<>>, most_relevant_section_title |-> <<>>],
     [has_toc |-> TRUE, relevant_pages |-> <<11, 12>>,
      most_relevant_section_title |-> <<"Troubleshooting">>],
     [has_toc |-> TRUE, relevant_pages |-> <<12, 30>>, most_relevant_section_title |-> <<>>],
     [has_toc |-> TRUE, relevant_pages |-> [i \in 1..22 |-> i],
      most_relevant_section_title |-> <<>>]}

-----------------------------------------------------------------------------
(* state.py *)

\* Mutant of add_rag_history: the new list replaces the history
add_rag_history_overwrite(existing, new) == new

add_rag_history(existing, new) == existing \o new

add_messages(existing, new) == existing \o new

initial_state ==
    [chat_id |-> "chat-1",
     messages |-> <<>>,
     product_name |-> "",
     classified_question |-> <<>>,
     gatherer_attempts |-> 0,
     has_enough_info |-> FALSE,
     rag_history |-> <<>>,
     retrieval_attempts |-> 0,
     is_context_sufficient |-> FALSE,
     information_gap |-> <<>>,
     final_answer |-> <<>>,
     escalated_to_human |-> FALSE,
     pdf_fallback_used |-> FALSE,
     user_satisfied |-> FALSE,
     feedback_collected |-> FALSE,
     clarification_used |-> FALSE,
     user_clarification |-> <<>>,
     clarification_is_actionable |-> FALSE,
     feedback_uncertain |-> FALSE]

\* The runtime's state update: a key the node returned goes through the
\* key's reducer (rag_history, messages) or replaces the old value.
Merge(s, upd) ==
    [k \in DOMAIN s |->
        IF k \in DOMAIN upd
        THEN IF k = "rag_history" THEN add_rag_history(s[k], upd[k])
             ELSE IF k = "messages" THEN add_messages(s[k], upd[k])
             ELSE upd[k]
        ELSE s[k]]

EmptyDict == <<>>

-----------------------------------------------------------------------------
(* tools/rag_search.py: the retrieval backend, with a fixed index content *)

UrlSmall == "https://dl.dell.com/latitude-setup-guide.pdf"
UrlLarge == "https://dl.dell.com/Latitude-Owners-Manual.PDF"
UrlMissing == "https://dl.dell.com/not-downloaded.pdf"
UrlWeb == "https://www.dell.com/support/kbdoc/000123"
\* Two scanned documents: pages without a text layer
UrlScan == "https://dl.dell.com/scanned-quick-start.pdf"
UrlScanLarge == "https://dl.dell.com/scanned-service-manual.pdf"

\* (formatted context, source URLs); ("", []) when nothing matches.
rag_search(product_name, query) ==
    IF product_name = "latitude-5420" /\ query = SearchQuery1
    THEN <<(<<"[1] Owner's manual excerpt">>), <<UrlLarge, UrlWeb>>>>
    ELSE IF product_name = "latitude-5420"
    THEN <<(<<"[1] Setup guide excerpt">>), <<UrlSmall, UrlWeb>>>>
    ELSE IF query = SearchQuery1
    THEN <<(<<"[1] Knowledge base article">>), <<UrlWeb, UrlMissing>>>>
    ELSE <<(<<>>), <<>>>>

-----------------------------------------------------------------------------
(* agents/pdf_fallback.py: the document store and the helpers *)

IntStr == [n \in 0..30 |->
    <<"0", "1", "2", "3", "4", "5", "6", "7", "8", "9", "10", "11", "12", "13",
      "14", "15", "16", "17", "18", "19", "20", "21", "22", "23", "24", "25",
      "26", "27", "28", "29", "30">>[n + 1]]

\* str(n)
Str(n) == IntStr[n]

Whitespace == {" ", "\n", "\t"}

\* s.strip(): leading and trailing whitespace tokens removed
RECURSIVE LStrip(_)
LStrip(s) == IF s # <<>> /\ Head(s) \in Whitespace THEN LStrip(Tail(s)) ELSE s

RECURSIVE RStrip(_)
RStrip(s) ==
    IF s # <<>> /\ s[Len(s)] \in Whitespace THEN RStrip(SubSeq(s, 1, Len(s) - 1)) ELSE s

Strip(s) == RStrip(LStrip(s))

\* url.lower().endswith(".pdf")
IsPdfUrl(url) == url \in {UrlSmall, UrlLarge, UrlMissing, UrlScan, UrlScanLarge}

\* re.sub of the scheme and of the characters Windows forbids, cut at 240
sanitise_url_for_filename(url) ==
    CASE url = UrlSmall -> "dl.dell.com_latitude-setup-guide.pdf"
      [] url = UrlLarge -> "dl.dell.com_Latitude-Owners-Manual.PDF"
      [] url = UrlMissing -> "dl.dell.com_not-downloaded.pdf"
      [] url = UrlScan -> "dl.dell.com_scanned-quick-start.pdf"
      [] url = UrlScanLarge -> "dl.dell.com_scanned-service-manual.pdf"
      [] OTHER -> "www.dell.com_support_kbdoc_000123"

\* Pages of the owner's manual in the document store
LargePdfPageCount == 22

\* The files of PDF_DIR and the text of their pages
PdfDirFiles ==
    {<<"dl.dell.com_latitude-setup-guide.pdf", "-1.pdf">>,
     <<"dl.dell.com_Latitude-Owners-Manual.PDF", "-1.pdf">>,
     <<"dl.dell.com_scanned-quick-start.pdf", "-1.pdf">>,
     <<"dl.dell.com_scanned-service-manual.pdf", "-1.pdf">>}

PdfPages(pdf_path) ==
    IF pdf_path = <<"dl.dell.com_latitude-setup-guide.pdf", "-1.pdf">>
    THEN <<(<<"Setup guide: connect the adapter.">>), <<"Press the power button.">>>>
    ELSE IF pdf_path = <<"dl.dell.com_scanned-quick-start.pdf", "-1.pdf">>
    THEN <<(<<" ">>), <<"\n", "\t">>, <<>>>>
    ELSE IF pdf_path = <<"dl.dell.com_scanned-service-manual.pdf", "-1.pdf">>
    THEN [i \in 1..(PDF_TOC_PAGE_THRESHOLD + 1) |->
            IF i <= PDF_TOC_PAGE_THRESHOLD THEN <<"\n">> ELSE <<"Typed appendix">>]
    ELSE [i \in 1..LargePdfPageCount |-> IF i = 12 THEN <<"\n">> ELSE <<"Owner's manual, page ", Str(i)>>]

find_pdf_on_disk(url) ==
    LET candidate == <<sanitise_url_for_filename(url), "-1.pdf">>
    IN  IF candidate \in PdfDirFiles THEN Some(candidate) ELSE None

RECURSIVE AllUrls(_)
AllUrls(rag_history) ==
    IF rag_history = <<>> THEN <<>>
    ELSE Head(rag_history).urls \o AllUrls(Tail(rag_history))

Occurrences(seq, u) == Cardinality({i \in 1..Len(seq) : seq[i] = u})

FirstSeen(seq, u) == CHOOSE i \in 1..Len(seq) : seq[i] = u /\ \A j \in 1..(i - 1) : seq[j] # u

\* Mutant of get_most_frequent_pdf_url: among the most frequent, the last
\* one seen
get_most_frequent_pdf_url_last_seen(rag_history) ==
    LET pdfs == SelectSeq(AllUrls(rag_history), IsPdfUrl)
        keys == {pdfs[i] : i \in 1..Len(pdfs)}
    IN  IF pdfs = <<>> THEN None
        ELSE Some(CHOOSE u \in keys : \A v \in keys :
                    \/ Occurrences(pdfs, u) > Occurrences(pdfs, v)
                    \/ /\ Occurrences(pdfs, u) = Occurrences(pdfs, v)
                       /\ FirstSeen(pdfs, u) >= FirstSeen(pdfs, v))

\* Counter over the PDF URLs of every entry; most_common(1) is the first
\* key, in insertion order, among those with the highest count.
get_most_frequent_pdf_url(rag_history) ==
    LET pdfs == SelectSeq(AllUrls(rag_history), IsPdfUrl)
        keys == {pdfs[i] : i \in 1..Len(pdfs)}
    IN  IF pdfs = <<>> THEN None
        ELSE Some(CHOOSE u \in keys : \A v \in keys :
                    \/ Occurrences(pdfs, u) > Occurrences(pdfs, v)
                    \/ /\ Occurrences(pdfs, u) = Occurrences(pdfs, v)
                       /\ FirstSeen(pdfs, u) <= FirstSeen(pdfs, v))

get_page_count(pdf_path) == Len(PdfPages(pdf_path))

\* Mutant of PageParts: a page without text is not skipped
RECURSIVE PageParts_keeps_blank(_, _)
PageParts_keeps_blank(pdf_path, page_numbers) ==
    IF page_numbers = <<>> THEN <<>>
    ELSE LET page_num == Head(page_numbers)
             idx == page_num - 1
             rest == PageParts_keeps_blank(pdf_path, Tail(page_numbers))
         IN  IF 0 <= idx /\ idx < get_page_count(pdf_path)
             THEN <<(<<"--- Page ", Str(page_num), " ---\n">> \o PdfPages(pdf_path)[page_num])>>
                  \o rest
             ELSE rest

RECURSIVE PageParts(_, _)
PageParts(pdf_path, page_numbers) ==
    IF page_numbers = <<>> THEN <<>>
    ELSE LET page_num == Head(page_numbers)
             idx == page_num - 1
             rest == PageParts(pdf_path, Tail(page_numbers))
         IN  IF 0 <= idx /\ idx < get_page_count(pdf_path)
                /\ Strip(PdfPages(pdf_path)[page_num]) # <<>>
             THEN <<(<<"--- Page ", Str(page_num), " ---\n">> \o PdfPages(pdf_path)[page_num])>>
                  \o rest
             ELSE rest

\* sep.join(parts), parts a sequence of strings
RECURSIVE Join(_, _)
Join(sep, parts) ==
    IF parts = <<>> THEN <<>>
    ELSE IF Len(parts) = 1 THEN parts[1]
    ELSE parts[1] \o sep \o Join(sep, Tail(parts))

extract_pages_text(pdf_path, page_numbers) ==
    Join(<<"\n\n">>, PageParts(pdf_path, page_numbers))

\* Mutant of Range1: list(range(a, b))
Range1_exclusive(a, b) == [i \in 1..(b - a) |-> a + i - 1]

\* list(range(a, b + 1))
Range1(a, b) == [i \in 1..(b - a + 1) |-> a + i - 1]

-----------------------------------------------------------------------------
(* graph.py and agents/: the node functions, each returning its update dict *)

product_selector_node(s, slug) ==
    [product_name |-> slug, messages |-> <<"human">>]

\* Mutant of information_gatherer_node: a failed oracle call is not counted
information_gatherer_node_failure_uncounted(s, response) ==
    IF response = None
    THEN [has_enough_info |-> FALSE, messages |-> <<"ai">>]
    ELSE IF ~response[1].has_enough_info
    THEN [has_enough_info |-> FALSE,
          gatherer_attempts |-> s.gatherer_attempts + 1,
          messages |-> <<"ai">>]
    ELSE [has_enough_info |-> TRUE,
          classified_question |-> response[1].classified_question,
          messages |-> <<"ai">>]

\* Mutant of information_gatherer_node: the question of an insufficient
\* round is kept
information_gatherer_node_keeps_partial(s, response) ==
    IF response = None
    THEN [has_enough_info |-> FALSE,
          gatherer_attempts |-> s.gatherer_attempts + 1,
          messages |-> <<"ai">>]
    ELSE IF ~response[1].has_enough_info
    THEN [has_enough_info |-> FALSE,
          gatherer_attempts |-> s.gatherer_attempts + 1,
          classified_question |-> response[1].classified_question,
          messages |-> <<"ai">>]
    ELSE [has_enough_info |-> TRUE,
          classified_question |-> response[1].classified_question,
          messages |-> <<"ai">>]

information_gatherer_node(s, response) ==
    IF response = None
    THEN [has_enough_info |-> FALSE,
          gatherer_attempts |-> s.gatherer_attempts + 1,
          messages |-> <<"ai">>]
    ELSE IF ~response[1].has_enough_info
    THEN [has_enough_info |-> FALSE,
          gatherer_attempts |-> s.gatherer_attempts + 1,
          messages |-> <<"ai">>]
    ELSE [has_enough_info |-> TRUE,
          classified_question |-> response[1].classified_question,
          messages |-> <<"ai">>]

ask_user_for_details_node(s, user_input) ==
    [messages |-> <<"human">>]

\* Mutant of rag_retriever_node: nothing is searched when the call failed
rag_retriever_node_failure_no_search(s, response) ==
    IF response = None
    THEN [rag_history |-> <<>>, messages |-> <<"ai">>]
    ELSE LET found == rag_search(s.product_name, response[1].search_query)
         IN  [rag_history |-> <<[query |-> response[1].search_query,
                                 context |-> found[1], urls |-> found[2]]>>,
              messages |-> <<"ai">>]

rag_retriever_node(s, response) ==
    IF response = None
    THEN LET fallback_query == <<s.product_name, " ">> \o s.classified_question
             found == rag_search(s.product_name, fallback_query)
         IN  [rag_history |-> <<[query |-> fallback_query, context |-> found[1],
                                 urls |-> found[2]]>>,
              messages |-> <<"ai">>]
    ELSE LET found == rag_search(s.product_name, response[1].search_query)
         IN  [rag_history |-> <<[query |-> response[1].search_query,
                                 context |-> found[1], urls |-> found[2]]>>,
              messages |-> <<"ai">>]

AssessFailedGap == <<"Unable to assess context quality due to LLM error">>

\* Mutant of quality_checker_node: a round whose assessment failed is not
\* counted
quality_checker_node_failure_uncounted(s, assessment) ==
    LET new_retrieval_attempts == s.retrieval_attempts + 1
    IN  IF assessment = None
        THEN [is_context_sufficient |-> FALSE,
              information_gap |-> AssessFailedGap,
              messages |-> <<"ai">>]
        ELSE IF ~assessment[1].is_sufficient
        THEN [is_context_sufficient |-> FALSE,
              retrieval_attempts |-> new_retrieval_attempts,
              information_gap |-> assessment[1].information_gap,
              messages |-> <<"ai">>]
        ELSE [is_context_sufficient |-> TRUE,
              retrieval_attempts |-> new_retrieval_attempts,
              information_gap |-> <<>>]

\* Mutant of quality_checker_node: a sufficient round is not counted
quality_checker_node_sufficient_uncounted(s, assessment) ==
    LET new_retrieval_attempts == s.retrieval_attempts + 1
    IN  IF assessment = None
        THEN [is_context_sufficient |-> FALSE,
              retrieval_attempts |-> new_retrieval_attempts,
              information_gap |-> AssessFailedGap,
              messages |-> <<"ai">>]
        ELSE IF ~assessment[1].is_sufficient
        THEN [is_context_sufficient |-> FALSE,
              retrieval_attempts |-> new_retrieval_attempts,
              information_gap |-> assessment[1].information_gap,
              messages |-> <<"ai">>]
        ELSE [is_context_sufficient |-> TRUE,
              information_gap |-> <<>>]

quality_checker_node(s, assessment) ==
    LET new_retrieval_attempts == s.retrieval_attempts + 1
    IN  IF assessment = None
        THEN [is_context_sufficient |-> FALSE,
              retrieval_attempts |-> new_retrieval_attempts,
              information_gap |-> AssessFailedGap,
              messages |-> <<"ai">>]
        ELSE IF ~assessment[1].is_sufficient
        THEN [is_context_sufficient |-> FALSE,
              retrieval_attempts |-> new_retrieval_attempts,
              information_gap |-> assessment[1].information_gap,
              messages |-> <<"ai">>]
        ELSE [is_context_sufficient |-> TRUE,
              retrieval_attempts |-> new_retrieval_attempts,
              information_gap |-> <<>>]

FallbackAnswer ==
    <<"I apologise, but I am currently unable to formulate a response. ",
      "Please try again later or contact Dell support directly.">>

answer_formulator_node(s, formulated) ==
    IF formulated = None
    THEN [final_answer |-> FallbackAnswer, messages |-> <<"ai">>]
    ELSE [final_answer |-> formulated[1].answer, messages |-> <<"ai">>]

present_answer_node(s) == [escalated_to_human |-> FALSE]

\* Mutant of ask_for_clarification_node: the line is taken as typed
ask_for_clarification_node_unstripped(s, line) ==
    IF line = <<>>
    THEN [user_clarification |-> <<>>,
          clarification_is_actionable |-> FALSE,
          clarification_used |-> TRUE]
    ELSE [user_clarification |-> line]

\* user_input = input("You: ").strip()
ask_for_clarification_node(s, line) ==
    LET user_input == Strip(line)
    IN  IF user_input = <<>>
        THEN [user_clarification |-> <<>>,
              clarification_is_actionable |-> FALSE,
              clarification_used |-> TRUE]
        ELSE [user_clarification |-> user_input]

\* Mutant of clarification_assessor_node: an actionable clarification is
\* not marked as used
clarification_assessor_node_forgets_used(s, response) ==
    IF response = None
    THEN [clarification_is_actionable |-> FALSE, clarification_used |-> TRUE]
    ELSE IF response[1].is_actionable
    THEN [clarification_is_actionable |-> TRUE,
          information_gap |-> response[1].information_gap,
          retrieval_attempts |-> 0]
    ELSE [clarification_is_actionable |-> FALSE, clarification_used |-> TRUE]

\* Mutant of clarification_assessor_node: retrieval_attempts is not reset
clarification_assessor_node_no_reset(s, response) ==
    IF response = None
    THEN [clarification_is_actionable |-> FALSE, clarification_used |-> TRUE]
    ELSE IF response[1].is_actionable
    THEN [clarification_is_actionable |-> TRUE,
          clarification_used |-> TRUE,
          information_gap |-> response[1].information_gap]
    ELSE [clarification_is_actionable |-> FALSE, clarification_used |-> TRUE]

\* Mutant of clarification_assessor_node: the gap and the reset are
\* returned whatever the verdict
clarification_assessor_node_always_resets(s, response) ==
    IF response = None
    THEN [clarification_is_actionable |-> FALSE, clarification_used |-> TRUE]
    ELSE [clarification_is_actionable |-> response[1].is_actionable,
          clarification_used |-> TRUE,
          information_gap |-> response[1].information_gap,
          retrieval_attempts |-> 0]

clarification_assessor_node(s, response) ==
    IF response = None
    THEN [clarification_is_actionable |-> FALSE, clarification_used |-> TRUE]
    ELSE IF response[1].is_actionable
    THEN [clarification_is_actionable |-> TRUE,
          clarification_used |-> TRUE,
          information_gap |-> response[1].information_gap,
          retrieval_attempts |-> 0]
    ELSE [clarification_is_actionable |-> FALSE, clarification_used |-> TRUE]

present_fallback_answer_node(s) == [escalated_to_human |-> FALSE]

EscalationNotice ==
    <<"We were unable to find a sufficient answer to your query after ",
      "multiple attempts. Your case has been escalated to a human support ",
      "agent who will be in touch shortly.">>

\* Mutant of escalate_node: the notice is printed but not stored
escalate_node_keeps_answer(s) == [escalated_to_human |-> TRUE]

escalate_node(s) == [escalated_to_human |-> TRUE, final_answer |-> EscalationNotice]

\* Mutant of feedback_collector_node: an uncertain verdict keeps the
\* oracle's is_satisfied
feedback_collector_node_keeps_verdict(s, feedback) ==
    IF feedback = None
    THEN [user_satisfied |-> TRUE, feedback_collected |-> TRUE,
          feedback_uncertain |-> TRUE, messages |-> <<"human">>]
    ELSE [user_satisfied |-> feedback[1].is_satisfied, feedback_collected |-> TRUE,
          feedback_uncertain |-> feedback[1].is_uncertain, messages |-> <<"human">>]

feedback_collector_node(s, feedback) ==
    IF feedback = None
    THEN [user_satisfied |-> TRUE, feedback_collected |-> TRUE,
          feedback_uncertain |-> TRUE, messages |-> <<"human">>]
    ELSE IF feedback[1].is_uncertain
    THEN [user_satisfied |-> TRUE, feedback_collected |-> TRUE,
          feedback_uncertain |-> TRUE, messages |-> <<"human">>]
    ELSE [user_satisfied |-> feedback[1].is_satisfied, feedback_collected |-> TRUE,
          feedback_uncertain |-> FALSE, messages |-> <<"human">>]

PdfPreambleAll ==
    <<"We could not find an exact answer to your query after multiple ",
      "search attempts, but the following document may contain useful ",
      "information.\n\n">>

PdfPreambleSection ==
    <<"We could not find an exact answer to your query after multiple ",
      "search attempts, but the following section from a related document ",
      "may contain useful information.\n\n">>

RECURSIVE StrEach(_)
StrEach(page_numbers) ==
    IF page_numbers = <<>> THEN <<>>
    ELSE <<(<<Str(Head(page_numbers))>>)>> \o StrEach(Tail(page_numbers))

\* Whether the node reaches its oracle call (step 4, a large document with
\* text on its first pages)
pdf_fallback_calls_oracle(s) ==
    LET pdf_url == get_most_frequent_pdf_url(s.rag_history)
    IN  /\ pdf_url # None
        /\ find_pdf_on_disk(pdf_url[1]) # None
        /\ LET pdf_path == find_pdf_on_disk(pdf_url[1])[1]
           IN  /\ get_page_count(pdf_path) > PDF_TOC_PAGE_THRESHOLD
               /\ Strip(extract_pages_text(pdf_path,
                            Range1(1, PDF_TOC_PAGE_THRESHOLD))) # <<>>

pdf_fallback_node(s, toc_analysis) ==
    LET pdf_url == get_most_frequent_pdf_url(s.rag_history)
    IN  IF pdf_url = None THEN [pdf_fallback_used |-> FALSE]
        ELSE IF find_pdf_on_disk(pdf_url[1]) = None THEN [pdf_fallback_used |-> FALSE]
        ELSE
        LET pdf_path == find_pdf_on_disk(pdf_url[1])[1]
            page_count == get_page_count(pdf_path)
        IN  IF page_count <= PDF_TOC_PAGE_THRESHOLD
            THEN LET extracted_text == extract_pages_text(pdf_path, Range1(1, page_count))
                     fallback_answer ==
                         PdfPreambleAll \o <<"Source: ", pdf_url[1], "\n">>
                         \o <<"Pages: all (", Str(page_count), " pages)\n\n">>
                         \o extracted_text
                 IN  IF Strip(extracted_text) = <<>> THEN [pdf_fallback_used |-> FALSE]
                     ELSE [pdf_fallback_used |-> TRUE,
                           final_answer |-> fallback_answer,
                           messages |-> <<"ai">>]
            ELSE IF Strip(extract_pages_text(pdf_path,
                              Range1(1, PDF_TOC_PAGE_THRESHOLD))) = <<>>
            THEN [pdf_fallback_used |-> FALSE]
            ELSE IF toc_analysis = None THEN [pdf_fallback_used |-> FALSE]
            ELSE IF ~toc_analysis[1].has_toc THEN [pdf_fallback_used |-> FALSE]
            ELSE IF toc_analysis[1].relevant_pages = <<>> THEN [pdf_fallback_used |-> FALSE]
            ELSE
            LET extracted_text == extract_pages_text(pdf_path, toc_analysis[1].relevant_pages)
                section_note ==
                    IF toc_analysis[1].most_relevant_section_title # <<>>
                    THEN <<"Relevant section: ">>
                         \o toc_analysis[1].most_relevant_section_title \o <<"\n">>
                    ELSE <<>>
                pages_str == Join(<<", ">>, StrEach(toc_analysis[1].relevant_pages))
                fallback_answer ==
                    PdfPreambleSection \o <<"Source: ", pdf_url[1], "\n">>
                    \o section_note \o <<"Pages: ">> \o pages_str \o <<"\n\n">>
                    \o extracted_text
            IN  IF Strip(extracted_text) = <<>> THEN [pdf_fallback_used |-> FALSE]
                ELSE [pdf_fallback_used |-> TRUE,
                      final_answer |-> fallback_answer,
                      messages |-> <<"ai">>]

-----------------------------------------------------------------------------
(* graph.py: the routing functions of the conditional edges *)

\* Mutant of route_after_gatherer: > for >=
route_after_gatherer_off_by_one(s) ==
    IF s.has_enough_info THEN "rag_retriever"
    ELSE IF s.gatherer_attempts > MAX_GATHERER_ATTEMPTS THEN "rag_retriever"
    ELSE "ask_user_for_details"

route_after_gatherer(s) ==
    IF s.has_enough_info THEN "rag_retriever"
    ELSE IF s.gatherer_attempts >= MAX_GATHERER_ATTEMPTS THEN "rag_retriever"
    ELSE "ask_user_for_details"

\* Mutant of route_after_quality_checker: exhaustion is not tested, the
\* fallback follows the first insufficient round
route_after_quality_checker_early(s) ==
    IF s.is_context_sufficient THEN "answer_formulator"
    ELSE IF s.retrieval_attempts >= 1 THEN "pdf_fallback"
    ELSE "rag_retriever"

\* Mutant of route_after_quality_checker: exhaustion is tested before
\* sufficiency
route_after_quality_checker_exhaustion_first(s) ==
    IF s.retrieval_attempts >= MAX_RETRIEVAL_ATTEMPTS THEN "pdf_fallback"
    ELSE IF s.is_context_sufficient THEN "answer_formulator"
    ELSE "rag_retriever"

route_after_quality_checker(s) ==
    IF s.is_context_sufficient THEN "answer_formulator"
    ELSE IF s.retrieval_attempts >= MAX_RETRIEVAL_ATTEMPTS THEN "pdf_fallback"
    ELSE "rag_retriever"

\* Mutant of route_after_present_answer: clarification_used is not read
route_after_present_answer_always_asks(s) == "ask_for_clarification"

\* Mutant of route_after_present_answer: the verdict is read instead of
\* clarification_used
route_after_present_answer_reads_verdict(s) ==
    IF s.clarification_used /\ ~s.clarification_is_actionable THEN "log_pre_feedback"
    ELSE "ask_for_clarification"

route_after_present_answer(s) ==
    IF s.clarification_used THEN "log_pre_feedback" ELSE "ask_for_clarification"

route_after_clarification(s) ==
    IF s.user_clarification = <<>> THEN "log_pre_feedback" ELSE "clarification_assessor"

\* Mutant of route_after_clarification_assessor: the verdict is not read
route_after_clarification_assessor_never_retries(s) == "log_pre_feedback"

route_after_clarification_assessor(s) ==
    IF s.clarification_is_actionable THEN "rag_retriever" ELSE "log_pre_feedback"

\* Mutant of route_after_log_pre_feedback: feedback is always collected
route_after_log_pre_feedback_always_asks(s) == "collect_feedback"

route_after_log_pre_feedback(s) ==
    IF s.escalated_to_human THEN "log_result" ELSE "collect_feedback"

\* Mutant of route_after_pdf_fallback: a document answer is presented as an
\* ordinary answer
route_after_pdf_fallback_presents_answer(s) ==
    IF s.pdf_fallback_used THEN "present_answer" ELSE "escalate"

\* Mutant of route_after_pdf_fallback: pdf_fallback_used is not read
route_after_pdf_fallback_always_escalates(s) == "escalate"

\* Mutant of route_after_pdf_fallback: the fallback answer is presented
\* whether there is one or not
route_after_pdf_fallback_always_presents(s) == "present_fallback_answer"

route_after_pdf_fallback(s) ==
    IF s.pdf_fallback_used THEN "present_fallback_answer" ELSE "escalate"

-----------------------------------------------------------------------------
(* logging_/csv_logger.py, logging_/ticket_writer.py and the two log nodes *)

\* config.py: the two files of LOGS_DIR
SUPPORT_LOG_CSV == "support_log.csv"
TICKETS_CSV == "tickets.csv"

SUPPORT_LOG_HEADERS == [row |-> "header", file |-> "support_log.csv"]

TICKET_HEADERS == [row |-> "header", file |-> "tickets.csv"]

\* The file is opened in append mode; the header row goes first when the
\* file did not exist.  A file that does not exist is the empty sequence.
write_support_log(file, data_row) ==
    IF file = <<>> THEN <<SUPPORT_LOG_HEADERS, data_row>> ELSE Append(file, data_row)

write_ticket(file, data_row) ==
    IF file = <<>> THEN <<TICKET_HEADERS, data_row>> ELSE Append(file, data_row)

\* Mutant of log_pre_feedback_row: the status is always pending_feedback
log_pre_feedback_row_always_pending(s) ==
    [row |-> "data",
     chat_id |-> s.chat_id,
     product |-> s.product_name,
     question |-> s.classified_question,
     status |-> "pending_feedback",
     escalated |-> s.escalated_to_human,
     gatherer_attempts |-> s.gatherer_attempts,
     retrieval_attempts |-> s.retrieval_attempts,
     user_satisfied |-> FALSE,
     feedback_uncertain |-> FALSE,
     feedback_collected |-> FALSE]

log_pre_feedback_row(s) ==
    [row |-> "data",
     chat_id |-> s.chat_id,
     product |-> s.product_name,
     question |-> s.classified_question,
     status |-> IF s.escalated_to_human THEN "escalated" ELSE "pending_feedback",
     escalated |-> s.escalated_to_human,
     gatherer_attempts |-> s.gatherer_attempts,
     retrieval_attempts |-> s.retrieval_attempts,
     user_satisfied |-> FALSE,
     feedback_uncertain |-> FALSE,
     feedback_collected |-> FALSE]

\* Mutant of log_result_status: escalation is not read
log_result_status_ignores_escalation(s) ==
    IF s.user_satisfied THEN "success" ELSE "failure"

log_result_status(s) ==
    IF s.escalated_to_human THEN "escalated"
    ELSE IF s.user_satisfied THEN "success"
    ELSE "failure"

log_result_row(s) ==
    [row |-> "data",
     chat_id |-> s.chat_id,
     product |-> s.product_name,
     question |-> s.classified_question,
     status |-> log_result_status(s),
     escalated |-> s.escalated_to_human,
     gatherer_attempts |-> s.gatherer_attempts,
     retrieval_attempts |-> s.retrieval_attempts,
     user_satisfied |-> s.user_satisfied,
     feedback_uncertain |-> s.feedback_uncertain,
     feedback_collected |-> ~s.escalated_to_human]

\* str(b) of a bool
BoolStr(b) == IF b THEN "True" ELSE "False"

\* Mutant of ticket_description: gatherer_attempts is printed twice
ticket_description_one_counter(s) ==
    <<"Customer was not satisfied with the support provided. ", "Product: ",
      s.product_name, ". Question: ">> \o s.classified_question
    \o <<". ", "Escalated: ", BoolStr(s.escalated_to_human), ". ",
         "Gatherer attempts: ", Str(s.gatherer_attempts), ". ",
         "Retrieval attempts: ", Str(s.gatherer_attempts), ".">>

ticket_description(s) ==
    <<"Customer was not satisfied with the support provided. ", "Product: ",
      s.product_name, ". Question: ">> \o s.classified_question
    \o <<". ", "Escalated: ", BoolStr(s.escalated_to_human), ". ",
         "Gatherer attempts: ", Str(s.gatherer_attempts), ". ",
         "Retrieval attempts: ", Str(s.retrieval_attempts), ".">>

ticket_row(s) ==
    [row |-> "data",
     chat_id |-> s.chat_id,
     product |-> s.product_name,
     question |-> s.classified_question,
     answer_given |-> s.final_answer,
     escalated |-> s.escalated_to_human,
     description |-> ticket_description(s)]

\* log_result_node's condition for write_ticket
log_result_writes_ticket(s) == ~s.user_satisfied

-----------------------------------------------------------------------------
(* The graph runtime: one node per super-step, within the recursion limit *)

\* No oracle call has returned yet
\* The sessions that run in parallel, each a process of its own
Sessions == {"chat-1", "chat-2"}

\* No call of write_support_log or write_ticket is in progress
NoWriters == [c \in Sessions |-> [pc |-> "done", todo |-> <<>>, file_exists |-> FALSE,
                                  buffer |-> <<>>]]

NoCall == [site |-> "none", response |-> None]

\* The locals of a retry loop that is not running
NotRetrying ==
    [pc |-> "idle", attempt |-> 0, response |-> None, invoked |-> 0,
     slept |-> <<>>, outcomes |-> <<>>]

Init ==
    /\ state = initial_state
    /\ node = "product_selector"
    /\ trace = <<>>
    /\ support_log = <<>>
    /\ tickets = <<>>
    /\ oracle = NoCall
    /\ retry = NotRetrying
    /\ log_files = {}
    /\ writers = NoWriters

\* Node n runs and returns upd.
Run(n, upd) ==
    /\ node = n
    /\ Len(trace) < RecursionLimit
    /\ state' = Merge(state, upd)
    /\ trace' = Append(trace, n)

\* The oracle call of node n ended with response (None: it failed).
Called(n, response) == oracle' = [site |-> n, response |-> response]

ProductSelector ==
    /\ \E slug \in Products : Run("product_selector", product_selector_node(state, slug))
    /\ node' = "information_gatherer"
    /\ UNCHANGED <<support_log, tickets, oracle, retry, log_files, writers>>

InformationGathererReturns(response) ==
    /\ Run("information_gatherer", information_gatherer_node(state, response))
    /\ Called("information_gatherer", response)
    /\ node' = route_after_gatherer(state')
    /\ UNCHANGED <<support_log, tickets>>

InformationGatherer ==
    /\ \E response \in OracleOutcomes(GathererResponses) : InformationGathererReturns(response)
    /\ UNCHANGED <<retry, log_files, writers>>

AskUserForDetails ==
    /\ \E user_input \in {<<"It stays black">>} :
          Run("ask_user_for_details", ask_user_for_details_node(state, user_input))
    /\ node' = "information_gatherer"
    /\ UNCHANGED <<support_log, tickets, oracle, retry, log_files, writers>>

RagRetrieverReturns(response) ==
    /\ Run("rag_retriever", rag_retriever_node(state, response))
    /\ Called("rag_retriever", response)
    /\ node' = "quality_checker"
    /\ UNCHANGED <<support_log, tickets>>

RagRetriever ==
    /\ \E response \in OracleOutcomes(RetrieverResponses) : RagRetrieverReturns(response)
    /\ UNCHANGED <<retry, log_files, writers>>

QualityCheckerReturns(assessment) ==
    /\ Run("quality_checker", quality_checker_node(state, assessment))
    /\ Called("quality_checker", assessment)
    /\ node' = route_after_quality_checker(state')
    /\ UNCHANGED <<support_log, tickets>>

QualityChecker ==
    /\ \E assessment \in OracleOutcomes(AssessmentResponses) : QualityCheckerReturns(assessment)
    /\ UNCHANGED <<retry, log_files, writers>>

AnswerFormulatorReturns(formulated) ==
    /\ Run("answer_formulator", answer_formulator_node(state, formulated))
    /\ Called("answer_formulator", formulated)
    /\ node' = "present_answer"
    /\ UNCHANGED <<support_log, tickets>>

AnswerFormulator ==
    /\ \E formulated \in OracleOutcomes(FormulatedResponses) : AnswerFormulatorReturns(formulated)
    /\ UNCHANGED <<retry, log_files, writers>>

PresentAnswer ==
    /\ Run("present_answer", present_answer_node(state))
    /\ node' = route_after_present_answer(state')
    /\ UNCHANGED <<support_log, tickets, oracle, retry, log_files, writers>>

AskForClarification ==
    /\ \E line \in Clarifications :
          Run("ask_for_clarification", ask_for_clarification_node(state, line))
    /\ node' = route_after_clarification(state')
    /\ UNCHANGED <<support_log, tickets, oracle, retry, log_files, writers>>

ClarificationAssessorReturns(response) ==
    /\ Run("clarification_assessor", clarification_assessor_node(state, response))
    /\ Called("clarification_assessor", response)
    /\ node' = route_after_clarification_assessor(state')
    /\ UNCHANGED <<support_log, tickets>>

ClarificationAssessor ==
    /\ \E response \in OracleOutcomes(ClarificationResponses) : ClarificationAssessorReturns(response)
    /\ UNCHANGED <<retry, log_files, writers>>

PdfFallbackReturns(toc_analysis) ==
    /\ Run("pdf_fallback", pdf_fallback_node(state, toc_analysis))
    /\ IF pdf_fallback_calls_oracle(state)
       THEN Called("pdf_fallback", toc_analysis)
       ELSE UNCHANGED oracle
    /\ node' = route_after_pdf_fallback(state')
    /\ UNCHANGED <<support_log, tickets>>

PdfFallback ==
    /\ \E toc_analysis \in
            IF pdf_fallback_calls_oracle(state) THEN OracleOutcomes(TOCResponses) ELSE {None} :
          PdfFallbackReturns(toc_analysis)
    /\ UNCHANGED <<retry, log_files, writers>>

PresentFallbackAnswer ==
    /\ Run("present_fallback_answer", present_fallback_answer_node(state))
    /\ node' = "log_pre_feedback"
    /\ UNCHANGED <<support_log, tickets, oracle, retry, log_files, writers>>

Escalate ==
    /\ Run("escalate", escalate_node(state))
    /\ node' = "log_pre_feedback"
    /\ UNCHANGED <<support_log, tickets, oracle, retry, log_files, writers>>

LogPreFeedback ==
    /\ Run("log_pre_feedback", EmptyDict)
    /\ support_log' = write_support_log(support_log, log_pre_feedback_row(state))
    /\ log_files' = log_files \cup {SUPPORT_LOG_CSV}
    /\ node' = route_after_log_pre_feedback(state')
    /\ UNCHANGED <<tickets, oracle, retry, writers>>

CollectFeedbackReturns(feedback) ==
    /\ Run("collect_feedback", feedback_collector_node(state, feedback))
    /\ Called("collect_feedback", feedback)
    /\ node' = "log_result"
    /\ UNCHANGED <<support_log, tickets>>

CollectFeedback ==
    /\ \E feedback \in OracleOutcomes(FeedbackResponses) : CollectFeedbackReturns(feedback)
    /\ UNCHANGED <<retry, log_files, writers>>

LogResult ==
    /\ Run("log_result", EmptyDict)
    /\ support_log' = write_support_log(support_log, log_result_row(state))
    /\ tickets' = IF log_result_writes_ticket(state)
                  THEN write_ticket(tickets, ticket_row(state))
                  ELSE tickets
    /\ log_files' = log_files \cup {SUPPORT_LOG_CSV}
                       \cup (IF log_result_writes_ticket(state) THEN {TICKETS_CSV} ELSE {})
    /\ node' = "END"
    /\ UNCHANGED <<oracle, retry, writers>>

\* The runtime raises GraphRecursionError when a node is due after the last
\* super-step the limit allows; invoke propagates it out of main.
GraphRecursionError ==
    /\ node \notin {"END", "ERROR"}
    /\ Len(trace) >= RecursionLimit
    /\ node' = "ERROR"
    /\ UNCHANGED <<state, trace, support_log, tickets, oracle, retry, log_files, writers>>

Next ==
    \/ ProductSelector
    \/ InformationGatherer
    \/ AskUserForDetails
    \/ RagRetriever
    \/ QualityChecker
    \/ AnswerFormulator
    \/ PresentAnswer
    \/ AskForClarification
    \/ ClarificationAssessor
    \/ PdfFallback
    \/ PresentFallbackAnswer
    \/ Escalate
    \/ LogPreFeedback
    \/ CollectFeedback
    \/ LogResult
    \/ GraphRecursionError

Spec == Init /\ [][Next]_vars

\* The runtime runs the next node whenever one is due.
FairSpec == Spec /\ WF_vars(Next)

-----------------------------------------------------------------------------
(* agents/: the retry loop around structured_llm.invoke, the same at all   *)
(* seven call sites.  retry holds its locals: attempt (0-based, as in      *)
(* range(MAX_RETRIES)) and response; invoked, slept and outcomes record    *)
(* what the loop did.                                                      *)

MAX_RETRIES == 3
RETRY_DELAYS == <<1, 2, 4>>

TransientErrors == {"APIConnectionError", "APITimeoutError", "RateLimitError"}
OtherErrors == {"ValidationError"}

\* Mutant of IsTransient: every exception is retried
IsTransient_any(e) == TRUE

\* except (APIConnectionError, APITimeoutError, RateLimitError)
IsTransient(e) == e \in TransientErrors

\* Mutant of SleepsBeforeRetry: the delay is waited after the last attempt too
SleepsBeforeRetry_always(attempt) == TRUE

\* if attempt < MAX_RETRIES - 1
SleepsBeforeRetry(attempt) == attempt < MAX_RETRIES - 1

\* Mutant of RetryDelay: the delay of the next attempt
RetryDelay_next(attempt) == RETRY_DELAYS[attempt + 2]

\* RETRY_DELAYS[attempt], a 0-based index into a Python list
RetryDelay(attempt) == RETRY_DELAYS[attempt + 1]

\* Mutant of LoopContinues: one more attempt
LoopContinues_once_more(attempt) == attempt < MAX_RETRIES + 1

\* for attempt in range(MAX_RETRIES): there is a next iteration
LoopContinues(attempt) == attempt < MAX_RETRIES

OracleSites ==
    {"information_gatherer", "rag_retriever", "quality_checker", "answer_formulator",
     "clarification_assessor", "collect_feedback", "pdf_fallback"}

SiteResponses(n) ==
    CASE n = "information_gatherer" -> GathererResponses
      [] n = "rag_retriever" -> RetrieverResponses
      [] n = "quality_checker" -> AssessmentResponses
      [] n = "answer_formulator" -> FormulatedResponses
      [] n = "clarification_assessor" -> ClarificationResponses
      [] n = "collect_feedback" -> FeedbackResponses
      [] n = "pdf_fallback" -> TOCResponses

\* structured_llm.invoke(messages) returns; break
InvokeReturns ==
    /\ retry.pc = "invoke"
    /\ \E r \in SiteResponses(node) :
          retry' = [retry EXCEPT !.response = Some(r), !.invoked = @ + 1,
                                 !.outcomes = Append(@, "ok"), !.pc = "return"]
    /\ UNCHANGED <<state, node, trace, support_log, tickets, oracle, log_files, writers>>

\* structured_llm.invoke(messages) raises one of the three retried classes
InvokeRaisesTransient ==
    /\ retry.pc = "invoke"
    /\ \E e \in TransientErrors \cup OtherErrors :
          /\ IsTransient(e)
          /\ retry' = [retry EXCEPT
                          !.invoked = @ + 1,
                          !.outcomes = Append(@, e),
                          !.attempt = IF SleepsBeforeRetry(retry.attempt) THEN @ ELSE @ + 1,
                          !.pc = IF SleepsBeforeRetry(retry.attempt) THEN "sleep"
                                 ELSE IF LoopContinues(retry.attempt + 1) THEN "invoke"
                                 ELSE "return"]
    /\ UNCHANGED <<state, node, trace, support_log, tickets, oracle, log_files, writers>>

\* structured_llm.invoke(messages) raises any other Exception; break
InvokeRaisesOther ==
    /\ retry.pc = "invoke"
    /\ \E e \in TransientErrors \cup OtherErrors :
          /\ ~IsTransient(e)
          /\ retry' = [retry EXCEPT !.invoked = @ + 1, !.outcomes = Append(@, e),
                                    !.pc = "return"]
    /\ UNCHANGED <<state, node, trace, support_log, tickets, oracle, log_files, writers>>

\* time.sleep(RETRY_DELAYS[attempt]), then the next iteration
Sleep ==
    /\ retry.pc = "sleep"
    /\ retry' = [retry EXCEPT
                    !.slept = Append(@, RetryDelay(retry.attempt)),
                    !.attempt = @ + 1,
                    !.pc = IF LoopContinues(retry.attempt + 1) THEN "invoke" ELSE "return"]
    /\ UNCHANGED <<state, node, trace, support_log, tickets, oracle, log_files, writers>>

\* The rest of the node function, from `if response is None` on
OracleReturn ==
    /\ retry.pc = "return"
    /\ retry' = [retry EXCEPT !.pc = "done"]
    /\ \/ InformationGathererReturns(retry.response)
       \/ RagRetrieverReturns(retry.response)
       \/ QualityCheckerReturns(retry.response)
       \/ AnswerFormulatorReturns(retry.response)
       \/ ClarificationAssessorReturns(retry.response)
       \/ CollectFeedbackReturns(retry.response)
       \/ PdfFallbackReturns(retry.response)
    /\ UNCHANGED <<log_files, writers>>

RetrievalRound == <<"rag_retriever", "quality_checker">>

\* Sessions up to each node that calls the oracle, built from the updates of
\* the nodes before it.
EnoughInfo == CHOOSE r \in GathererResponses : r.has_enough_info
Insufficient == CHOOSE r \in AssessmentResponses : ~r.is_sufficient
Sufficient == CHOOSE r \in AssessmentResponses : r.is_sufficient
GoodAnswer == CHOOSE r \in FormulatedResponses : r.answer # <<>>

Selected(p) == Merge(initial_state, product_selector_node(initial_state, p))
Gathered(p) == Merge(Selected(p), information_gatherer_node(Selected(p), Some(EnoughInfo)))
Retrieved(s) == Merge(s, rag_retriever_node(s, Some([search_query |-> SearchQuery1])))
Assessed(s, assessment) == Merge(s, quality_checker_node(s, Some(assessment)))
InsufficientRound(s) == Assessed(Retrieved(s), Insufficient)
Answered(p) ==
    LET s == Assessed(Retrieved(Gathered(p)), Sufficient)
        f == Merge(s, answer_formulator_node(s, Some(GoodAnswer)))
    IN  Merge(f, present_answer_node(f))
Clarified(p, user_input) == Merge(Answered(p), ask_for_clarification_node(Answered(p), user_input))

ToAnswer ==
    <<"product_selector", "information_gatherer", "rag_retriever", "quality_checker",
      "answer_formulator", "present_answer", "ask_for_clarification">>

OracleStarts ==
    UNION {
      {[node |-> "information_gatherer", state |-> Selected(p),
        trace |-> SubSeq(ToAnswer, 1, 1), support_log |-> <<>>, oracle |-> NoCall],
       [node |-> "rag_retriever", state |-> Gathered(p),
        trace |-> SubSeq(ToAnswer, 1, 2), support_log |-> <<>>,
        oracle |-> [site |-> "information_gatherer", response |-> Some(EnoughInfo)]],
       [node |-> "quality_checker", state |-> Retrieved(Gathered(p)),
        trace |-> SubSeq(ToAnswer, 1, 3), support_log |-> <<>>,
        oracle |-> [site |-> "rag_retriever",
                    response |-> Some([search_query |-> SearchQuery1])]],
       [node |-> "answer_formulator", state |-> Assessed(Retrieved(Gathered(p)), Sufficient),
        trace |-> SubSeq(ToAnswer, 1, 4), support_log |-> <<>>,
        oracle |-> [site |-> "quality_checker", response |-> Some(Sufficient)]],
       [node |-> "clarification_assessor",
        state |-> Clarified(p, <<"It beeps three times">>),
        trace |-> ToAnswer, support_log |-> <<>>,
        oracle |-> [site |-> "answer_formulator", response |-> Some(GoodAnswer)]],
       [node |-> "collect_feedback", state |-> Clarified(p, <<>>),
        trace |-> Append(ToAnswer, "log_pre_feedback"),
        support_log |-> write_support_log(<<>>, log_pre_feedback_row(Clarified(p, <<>>))),
        oracle |-> [site |-> "answer_formulator", response |-> Some(GoodAnswer)]],
       [node |-> "pdf_fallback",
        state |-> InsufficientRound(InsufficientRound(InsufficientRound(Gathered(p)))),
        trace |-> SubSeq(ToAnswer, 1, 2) \o RetrievalRound \o RetrievalRound \o RetrievalRound,
        support_log |-> <<>>,
        oracle |-> [site |-> "quality_checker", response |-> Some(Insufficient)]]}
      : p \in Products}

\* A node is about to enter its retry loop: response = None, attempt 0.
OracleInit ==
    /\ \E start \in OracleStarts :
          /\ start.node = "pdf_fallback" => pdf_fallback_calls_oracle(start.state)
          /\ state = start.state
          /\ node = start.node
          /\ trace = start.trace
          /\ support_log = start.support_log
          /\ oracle = start.oracle
    /\ tickets = <<>>
    /\ retry = [NotRetrying EXCEPT !.pc = "invoke"]
    /\ log_files = IF support_log = <<>> THEN {} ELSE {SUPPORT_LOG_CSV}
    /\ writers = NoWriters

OracleNext ==
    \/ InvokeReturns
    \/ InvokeRaisesTransient
    \/ InvokeRaisesOther
    \/ Sleep
    \/ OracleReturn

OracleSpec == OracleInit /\ [][OracleNext]_vars

-----------------------------------------------------------------------------
(* pdf_fallback on the histories a session can have collected: the search  *)
(* results of the three rounds before it are drawn from PdfUrlLists.       *)

PdfUrlLists ==
    {<<>>, <<UrlWeb>>, <<UrlSmall, UrlWeb>>, <<UrlLarge, UrlWeb>>, <<UrlWeb, UrlMissing>>,
     <<UrlScan>>, <<UrlScanLarge, UrlWeb>>}

\* A retrieval round that found urls and was judged insufficient
InsufficientRoundWith(s, urls) ==
    Assessed(Merge(s, [rag_history |-> <<[query |-> SearchQuery1,
                                          context |-> <<"[1] excerpt">>,
                                          urls |-> urls]>>,
                       messages |-> <<"ai">>]),
             Insufficient)

\* The state after an actionable clarification of a presented answer
Reopened(p) ==
    LET s == Clarified(p, <<"It beeps three times">>)
        actionable == CHOOSE r \in ClarificationResponses : r.is_actionable
    IN  Merge(s, clarification_assessor_node(s, Some(actionable)))

PdfInit ==
    /\ \E p \in Products, second_cycle \in BOOLEAN, u1, u2, u3 \in PdfUrlLists :
          /\ state = InsufficientRoundWith(
                        InsufficientRoundWith(
                           InsufficientRoundWith(
                              IF second_cycle THEN Reopened(p) ELSE Gathered(p), u1), u2), u3)
          /\ trace = (IF second_cycle THEN Append(ToAnswer, "clarification_assessor")
                      ELSE SubSeq(ToAnswer, 1, 2))
                     \o RetrievalRound \o RetrievalRound \o RetrievalRound
    /\ node = "pdf_fallback"
    /\ support_log = <<>>
    /\ tickets = <<>>
    /\ oracle = [site |-> "quality_checker", response |-> Some(Insufficient)]
    /\ retry = NotRetrying
    /\ log_files = {}
    /\ writers = NoWriters

PdfNext ==
    \/ PdfFallback
    \/ PresentFallbackAnswer
    \/ Escalate

PdfSpec == PdfInit /\ [][PdfNext]_vars

-----------------------------------------------------------------------------
(* Properties *)

CountIn(seq, x) == Cardinality({i \in 1..Len(seq) : seq[i] = x})

Last(seq) == seq[Len(seq)]

\* The node executed after the i-th, or the node that is due
NextAfter(i) == IF i < Len(trace) THEN trace[i + 1] ELSE node

\* log_result is about to run, or has run
AtTerminalStage == node \in {"log_result", "END"}

OutcomeStages == {"present_answer", "present_fallback_answer", "escalate"}

OutcomeTrace == SelectSeq(trace, LAMBDA n : n \in OutcomeStages)

IsDocumentExcerpt(answer) ==
    /\ Len(answer) >= 3
    /\ SubSeq(answer, 1, 3) \in {PdfPreambleAll, PdfPreambleSection}

\* C1 (as claimed): at the terminal stage final_answer is the answer text the
\* oracle returned in answer_formulator, a document excerpt of pdf_fallback,
\* or the escalation notice.
C1_ThreeOutcomes ==
    AtTerminalStage =>
        \/ state.final_answer \in Answers
        \/ IsDocumentExcerpt(state.final_answer)
        \/ state.final_answer = EscalationNotice

\* C1 (amended): at the terminal stage final_answer is one of four texts,
\* decided by the last outcome stage: after present_answer the oracle's
\* answer or, when the oracle call failed, the fixed apology; after
\* present_fallback_answer a document excerpt; after escalate the notice.
C1_FourOutcomes ==
    AtTerminalStage =>
        /\ OutcomeTrace # <<>>
        /\ Last(OutcomeTrace) = "present_answer" =>
              state.final_answer \in Answers \cup {FallbackAnswer}
        /\ Last(OutcomeTrace) = "present_fallback_answer" =>
              IsDocumentExcerpt(state.final_answer)
        /\ Last(OutcomeTrace) = "escalate" => state.final_answer = EscalationNotice

C1_Witness ==
    /\ node = "END"
    /\ state.final_answer = FallbackAnswer
    /\ Last(OutcomeTrace) = "present_answer"

\* C2: whenever log_result executes, final_answer is a non-empty string.
C2_FinalAnswerNonEmpty == AtTerminalStage => state.final_answer # <<>>

\* C3 (as claimed): by the terminal stage exactly one of present_answer,
\* present_fallback_answer, escalate has executed, and executed once.
C3_ExactlyOneOutcomeStage == AtTerminalStage => Len(OutcomeTrace) = 1

\* C3 (amended): by the terminal stage one outcome stage has executed, or two
\* when an actionable clarification restarted retrieval after present_answer
\* (the first is then present_answer); the last one is the session's outcome
\* and the flags agree with it.
C3_OneFinalOutcome ==
    AtTerminalStage =>
        /\ Len(OutcomeTrace) \in {1, 2}
        /\ Len(OutcomeTrace) = 2 =>
              /\ OutcomeTrace[1] = "present_answer"
              /\ state.clarification_is_actionable
              /\ CountIn(trace, "clarification_assessor") = 1
        /\ state.escalated_to_human <=> Last(OutcomeTrace) = "escalate"
        /\ state.pdf_fallback_used <=> Last(OutcomeTrace) = "present_fallback_answer"

C3_Witness ==
    /\ node = "END"
    /\ OutcomeTrace = <<"present_answer", "escalate">>

\* C4: a ticket is written iff the user is not satisfied and the session is
\* not escalated, i.e. iff the final status is "failure".
C4_TicketIffFailure ==
    node = "END" => (tickets # <<>> <=> log_result_status(state) = "failure")


\* C5: pdf_fallback runs only straight after a quality_checker round that
\* left retrieval_attempts = MAX_RETRIEVAL_ATTEMPTS and the context
\* insufficient, i.e. after three retrieval rounds of the current cycle.
C5_FallbackOnlyAfterExhaustion ==
    /\ node = "pdf_fallback" =>
          /\ state.retrieval_attempts = MAX_RETRIEVAL_ATTEMPTS
          /\ ~state.is_context_sufficient
    /\ \A i \in 1..Len(trace) :
          trace[i] = "pdf_fallback" =>
              /\ i > 6
              /\ SubSeq(trace, i - 6, i - 1)
                    = RetrievalRound \o RetrievalRound \o RetrievalRound
    /\ node = "pdf_fallback" =>
          /\ Len(trace) >= 6
          /\ SubSeq(trace, Len(trace) - 5, Len(trace))
                = RetrievalRound \o RetrievalRound \o RetrievalRound

C5_Witness ==
    /\ node = "pdf_fallback"
    /\ state.clarification_is_actionable
    /\ "present_answer" \in {trace[i] : i \in 1..Len(trace)}

\* C6: retrieval_attempts never exceeds MAX_RETRIEVAL_ATTEMPTS.
C6_RetrievalAttemptsBounded ==
    state.retrieval_attempts \in 0..MAX_RETRIEVAL_ATTEMPTS

C6_Witness ==
    /\ state.retrieval_attempts = MAX_RETRIEVAL_ATTEMPTS
    /\ state.clarification_is_actionable
    /\ CountIn(trace, "quality_checker") = 2 * MAX_RETRIEVAL_ATTEMPTS

\* C7: gatherer_attempts never exceeds MAX_GATHERER_ATTEMPTS, and neither
\* information_gatherer nor ask_user_for_details runs after rag_retriever.
C7_GathererBoundedNoReentry ==
    /\ state.gatherer_attempts \in 0..MAX_GATHERER_ATTEMPTS
    /\ \A i, j \in 1..Len(trace) :
          trace[i] = "rag_retriever" /\ i < j =>
              trace[j] \notin {"information_gatherer", "ask_user_for_details"}
    /\ CountIn(trace, "rag_retriever") > 0 =>
          node \notin {"information_gatherer", "ask_user_for_details"}

C7_Witness ==
    /\ state.gatherer_attempts = MAX_GATHERER_ATTEMPTS
    /\ CountIn(trace, "rag_retriever") > MAX_RETRIEVAL_ATTEMPTS
    /\ node = "END"

\* C8: rag_history has one entry per executed rag_retriever; a step of
\* rag_retriever appends exactly one entry and every other step leaves the
\* history as it is, so earlier entries are never removed or changed.
C8_HistoryAppendOnly ==
    [][/\ Len(state'.rag_history) = CountIn(trace', "rag_retriever")
       /\ IF node = "rag_retriever" /\ trace' # trace
          THEN /\ Len(state'.rag_history) = Len(state.rag_history) + 1
               /\ SubSeq(state'.rag_history, 1, Len(state.rag_history)) = state.rag_history
          ELSE state'.rag_history = state.rag_history]_vars

C8_Witness ==
    /\ Len(state.rag_history) = 2 * MAX_RETRIEVAL_ATTEMPTS
    /\ \E i \in 1..Len(state.rag_history) :
          /\ state.rag_history[i].context = <<>>
          /\ state.rag_history[i].urls = <<>>

\* C9: ask_for_clarification runs at most once and never with
\* clarification_used set; a present_answer that runs after it is followed
\* by log_pre_feedback.
C9_ClarificationAtMostOnce ==
    /\ CountIn(trace, "ask_for_clarification") <= 1
    /\ node = "ask_for_clarification" => ~state.clarification_used
    /\ CountIn(trace, "ask_for_clarification") = 1 /\ node # "clarification_assessor" =>
          state.clarification_used
    /\ \A i, j \in 1..Len(trace) :
          trace[i] = "ask_for_clarification" /\ i < j /\ trace[j] = "present_answer" =>
              NextAfter(j) = "log_pre_feedback"

C9_Witness ==
    /\ CountIn(trace, "present_answer") = 2
    /\ Last(trace) = "present_answer"
    /\ state.clarification_used
    /\ node = "log_pre_feedback"

\* C10: every session ends at log_result and never in an error state: a
\* session that has stopped (every step runs a node, so a session stops
\* after finitely many) has stopped at END, straight after log_result.
C10_EndsAtLogResult ==
    /\ node # "ERROR"
    /\ node = "END" => Last(trace) = "log_result"

-----------------------------------------------------------------------------
(* The retry loop (OracleSpec) *)

Transient(outcomes, n) ==
    /\ Len(outcomes) >= n
    /\ \A i \in 1..n : outcomes[i] \in TransientErrors

\* Three attempts, each failed transiently
Exhausted(r) == Len(r.outcomes) = 3 /\ Transient(r.outcomes, 3)

\* The loop ended with a non-transient error
Aborted(r) == r.outcomes # <<>> /\ Last(r.outcomes) \in OtherErrors

LoopOver(r) == r.pc \in {"return", "done"}

\* The state a node leaves when its oracle call failed, by call site
FallbackState(n, s) ==
    CASE n = "information_gatherer" ->
            [s EXCEPT !.has_enough_info = FALSE, !.gatherer_attempts = @ + 1,
                      !.messages = Append(@, "ai")]
      [] n = "rag_retriever" ->
            LET q == <<s.product_name, " ">> \o s.classified_question
            IN  [s EXCEPT !.rag_history =
                              Append(@, [query |-> q,
                                         context |-> rag_search(s.product_name, q)[1],
                                         urls |-> rag_search(s.product_name, q)[2]]),
                          !.messages = Append(@, "ai")]
      [] n = "quality_checker" ->
            [s EXCEPT !.is_context_sufficient = FALSE, !.retrieval_attempts = @ + 1,
                      !.information_gap = AssessFailedGap,
                      !.messages = Append(@, "ai")]
      [] n = "answer_formulator" ->
            [s EXCEPT !.final_answer = FallbackAnswer, !.messages = Append(@, "ai")]
      [] n = "clarification_assessor" ->
            [s EXCEPT !.clarification_is_actionable = FALSE, !.clarification_used = TRUE]
      [] n = "collect_feedback" ->
            [s EXCEPT !.user_satisfied = TRUE, !.feedback_collected = TRUE,
                      !.feedback_uncertain = TRUE, !.messages = Append(@, "human")]
      [] n = "pdf_fallback" -> [s EXCEPT !.pdf_fallback_used = FALSE]

GraphNodes ==
    {"product_selector", "information_gatherer", "ask_user_for_details", "rag_retriever",
     "quality_checker", "answer_formulator", "present_answer", "ask_for_clarification",
     "clarification_assessor", "pdf_fallback", "present_fallback_answer", "escalate",
     "log_pre_feedback", "collect_feedback", "log_result"}

\* The node returns with its call site's fallback: every key of the state
\* is defined, the failed call is the one recorded, a node of the graph is due.
ReturnsFallback ==
    /\ state' = FallbackState(node, state)
    /\ DOMAIN state' = DOMAIN initial_state
    /\ oracle' = [site |-> node, response |-> None]
    /\ trace' = Append(trace, node)
    /\ node' \in GraphNodes

\* C11: after three consecutive transient failures the loop is over with
\* exactly three invocations and no response, and the node then returns its
\* call site's fallback update, at each of the seven call sites.
C11_ExhaustionFallsBack ==
    [][/\ Exhausted(retry') =>
             LoopOver(retry') /\ retry'.invoked = 3 /\ retry'.response = None
       /\ Exhausted(retry) /\ retry.pc = "return" => retry'.pc = "done" /\ ReturnsFallback
      ]_vars

C11_Witness ==
    /\ retry.pc = "done"
    /\ Exhausted(retry)
    /\ Last(trace) = "rag_retriever"
    /\ Last(state.rag_history).query = <<state.product_name, " ">> \o state.classified_question

\* Two transient failures, then a response
TwoThenSuccess(r) ==
    Len(r.outcomes) = 3 /\ Transient(r.outcomes, 2) /\ r.outcomes[3] = "ok"

\* C12: after two transient failures and a success the loop is over with the
\* oracle's response, three invocations and two waits, of 1s then 2s, the
\* first before the 2nd attempt and both before the 3rd; the node returns
\* with that response.
C12_TwoFailuresThenSuccess ==
    /\ TwoThenSuccess(retry) =>
          /\ LoopOver(retry)
          /\ retry.response # None
          /\ retry.invoked = 3
          /\ retry.slept = <<1, 2>>
          /\ retry.pc = "done" => oracle = [site |-> Last(trace), response |-> retry.response]
    /\ retry.pc = "invoke" /\ Transient(retry.outcomes, 2) /\ Len(retry.outcomes) = 2 =>
          retry.invoked = 2 /\ retry.slept = <<1, 2>>
    /\ retry.pc = "invoke" /\ Transient(retry.outcomes, 1) /\ Len(retry.outcomes) = 1 =>
          retry.invoked = 1 /\ retry.slept = <<1>>

C12_Witness ==
    /\ retry.pc = "done"
    /\ TwoThenSuccess(retry)
    /\ Last(trace) = "answer_formulator"
    /\ state.final_answer = <<"Reseat the memory modules.">>

\* C13 as stated: a call that keeps failing transiently has waited 1s, 2s
\* and 4s, in that order, when it gives up.
C13_ThreeDelaysWaited ==
    Exhausted(retry) /\ LoopOver(retry) => retry.slept = <<1, 2, 4>>

\* Transient failures among the first n attempts
TransientAmong(outcomes, n) ==
    Cardinality({i \in 1..Len(outcomes) : i <= n /\ outcomes[i] \in TransientErrors})

\* C13, amended: the oracle is invoked at most three times; a delay is
\* waited only between two attempts, 1s before the 2nd and 2s before the
\* 3rd, so a call that fails transiently three times has waited 1s then 2s
\* and gives up without waiting the 4s delay.
C13_DelaysBetweenAttempts ==
    /\ retry.invoked <= 3
    /\ retry.pc # "sleep" =>
          retry.slept = SubSeq(<<1, 2>>, 1, TransientAmong(retry.outcomes, 2))
    /\ Exhausted(retry) =>
          LoopOver(retry) /\ retry.slept = <<1, 2>> /\ retry.response = None

C13_Witness ==
    /\ retry.pc = "done"
    /\ Exhausted(retry)
    /\ retry.slept = <<1, 2>>
    /\ Last(trace) = "quality_checker"
    /\ state.information_gap = AssessFailedGap

\* C14: a non-transient error on the 1st, 2nd or 3rd attempt ends the loop:
\* it was the last invocation, no delay follows it (the delays waited are
\* those of the transient failures before it), there is no response, and
\* the node returns the fallback it returns after exhaustion.
C14_NonTransientAborts ==
    [][/\ Aborted(retry') =>
             /\ LoopOver(retry')
             /\ retry'.invoked = Len(retry'.outcomes)
             /\ Transient(retry'.outcomes, retry'.invoked - 1)
             /\ retry'.slept = SubSeq(<<1, 2>>, 1, retry'.invoked - 1)
             /\ retry'.response = None
       /\ Aborted(retry) =>
             /\ retry'.invoked = retry.invoked
             /\ retry'.slept = retry.slept
             /\ ReturnsFallback
      ]_vars

C14_Witness ==
    /\ retry.pc = "done"
    /\ Aborted(retry)
    /\ retry.invoked = 3
    /\ Last(trace) = "collect_feedback"
    /\ state.user_satisfied /\ state.feedback_uncertain

-----------------------------------------------------------------------------
(* The control loop (Spec), continued *)

\* The gather loop gave up: retrieval is due or has begun without enough
\* information
GatherExhausted ==
    /\ ~state.has_enough_info
    /\ node = "rag_retriever" \/ CountIn(trace, "rag_retriever") > 0

\* C15 as stated: when the gather loop gives up, the user has been asked
\* for details 3 times.
C15_AskedThreeTimes ==
    GatherExhausted => CountIn(trace, "ask_user_for_details") = 3

\* C15, amended: information_gatherer runs at most 3 times and
\* ask_user_for_details at most 2 times; after a round without enough
\* information ask_user_for_details follows iff gatherer_attempts, which
\* already counts that round, is below 3; when the loop gives up the
\* gatherer has run 3 times and the user has been asked 2 times.
C15_AskedTwice ==
    /\ CountIn(trace, "information_gatherer") <= 3
    /\ CountIn(trace, "ask_user_for_details") <= 2
    /\ node = "ask_user_for_details" =>
          ~state.has_enough_info /\ state.gatherer_attempts < 3
    /\ Len(trace) > 0 /\ Last(trace) = "information_gatherer" /\ ~state.has_enough_info =>
          node = IF state.gatherer_attempts < 3 THEN "ask_user_for_details"
                 ELSE "rag_retriever"
    /\ \A i \in 1..Len(trace) :
          trace[i] = "ask_user_for_details" =>
              i > 1 /\ trace[i - 1] = "information_gatherer"
                    /\ NextAfter(i) = "information_gatherer"
    /\ GatherExhausted =>
          /\ CountIn(trace, "information_gatherer") = 3
          /\ CountIn(trace, "ask_user_for_details") = 2
          /\ state.gatherer_attempts = 3

C15_Witness ==
    /\ node = "rag_retriever"
    /\ ~state.has_enough_info
    /\ CountIn(trace, "ask_user_for_details") = 2
    /\ CountIn(trace, "information_gatherer") = 3

\* clarification_assessor has just run on an oracle verdict "actionable"
ActionableVerdict ==
    /\ node = "clarification_assessor"
    /\ trace' = Append(trace, "clarification_assessor")
    /\ oracle'.response # None
    /\ oracle'.response[1].is_actionable

\* C16: a step of clarification_assessor on an actionable verdict sets
\* information_gap to the oracle's gap and retrieval_attempts to 0 and makes
\* rag_retriever due; pdf_fallback becomes due after it only at the end of
\* three retrieval rounds that follow clarification_assessor.
C16_ActionableRestartsRetrieval ==
    [][/\ ActionableVerdict =>
             /\ state'.clarification_is_actionable
             /\ state'.information_gap = oracle'.response[1].information_gap
             /\ state'.retrieval_attempts = 0
             /\ node' = "rag_retriever"
       /\ node' = "pdf_fallback" /\ state'.clarification_is_actionable =>
             /\ Len(trace') > 7
             /\ SubSeq(trace', Len(trace') - 6, Len(trace'))
                   = <<"clarification_assessor">>
                       \o RetrievalRound \o RetrievalRound \o RetrievalRound
             /\ state'.retrieval_attempts = 3
      ]_vars

C16_Witness ==
    /\ node = "pdf_fallback"
    /\ state.clarification_is_actionable
    /\ CountIn(trace, "clarification_assessor") = 1
    /\ SubSeq(trace, Len(trace) - 5, Len(trace))
          = RetrievalRound \o RetrievalRound \o RetrievalRound
    /\ state.retrieval_attempts = 3

\* C17: after log_pre_feedback an escalated session goes to log_result,
\* collect_feedback never runs in it and the three feedback flags stay
\* false; a session that is not escalated goes to collect_feedback, which
\* runs once, straight after log_pre_feedback and straight before
\* log_result.
C17_FeedbackSkippedIffEscalated ==
    /\ CountIn(trace, "collect_feedback") <= 1
    /\ \A i \in 1..Len(trace) :
          /\ trace[i] = "log_pre_feedback" =>
                NextAfter(i) = IF state.escalated_to_human THEN "log_result"
                               ELSE "collect_feedback"
          /\ trace[i] = "collect_feedback" =>
                i > 1 /\ trace[i - 1] = "log_pre_feedback" /\ NextAfter(i) = "log_result"
    /\ state.escalated_to_human =>
          /\ CountIn(trace, "collect_feedback") = 0
          /\ ~state.user_satisfied
          /\ ~state.feedback_uncertain
          /\ ~state.feedback_collected
    /\ node \in {"log_result", "END"} /\ ~state.escalated_to_human =>
          CountIn(trace, "collect_feedback") = 1

\* The feedback oracle's verdict, once collect_feedback has run: it is the
\* last oracle call of the session
FeedbackVerdict(verdicts) ==
    oracle.site = "collect_feedback" /\ oracle.response \in verdicts

UncertainOrFailed ==
    {None} \cup {Some(r) : r \in {f \in FeedbackResponses : f.is_uncertain}}

\* C18: feedback_uncertain implies user_satisfied in every state; after an
\* uncertain verdict (is_satisfied true or false) or a failed feedback call
\* both flags are true, log_result follows, its record has status "success"
\* and is flagged uncertain, and no ticket is written.
C18_UncertainIsSatisfied ==
    /\ state.feedback_uncertain => state.user_satisfied
    /\ FeedbackVerdict(UncertainOrFailed) =>
          /\ state.user_satisfied
          /\ state.feedback_uncertain
          /\ node \in {"log_result", "END"}
          /\ tickets = <<>>
          /\ node = "END" =>
                /\ Last(support_log).status = "success"
                /\ Last(support_log).user_satisfied
                /\ Last(support_log).feedback_uncertain

C18_Witness ==
    /\ node = "END"
    /\ oracle = [site |-> "collect_feedback",
                 response |-> Some([is_satisfied |-> FALSE, is_uncertain |-> TRUE])]
    /\ Last(support_log).status = "success"
    /\ tickets = <<>>

\* label is followed by text in s
Includes(s, label, text) ==
    \E i \in 1..Len(s) :
        /\ s[i] = label
        /\ i + Len(text) <= Len(s)
        /\ SubSeq(s, i + 1, i + Len(text)) = text

\* C19: after the verdict "not satisfied, not uncertain" user_satisfied is
\* false and log_result follows; it writes the record with status
\* "failure" and one ticket, the only one of the session, whose description
\* names product_name, classified_question, escalated_to_human,
\* gatherer_attempts and retrieval_attempts of the state.
C19_FailureWritesTicket ==
    FeedbackVerdict({Some([is_satisfied |-> FALSE, is_uncertain |-> FALSE])}) =>
        /\ ~state.user_satisfied
        /\ ~state.feedback_uncertain
        /\ node \in {"log_result", "END"}
        /\ node = "log_result" => tickets = <<>>
        /\ node = "END" =>
              /\ Last(support_log).status = "failure"
              /\ Len(tickets) = 2
              /\ tickets[1] = TICKET_HEADERS
              /\ tickets[2].row = "data"
              /\ LET description == tickets[2].description
                 IN  /\ Includes(description, "Product: ", <<state.product_name>>)
                     /\ Includes(description, ". Question: ",
                                 state.classified_question \o <<". ">>)
                     /\ Includes(description, "Escalated: ", <<"False">>)
                     /\ ~state.escalated_to_human
                     /\ Includes(description, "Gatherer attempts: ",
                                 <<Str(state.gatherer_attempts)>>)
                     /\ Includes(description, "Retrieval attempts: ",
                                 <<Str(state.retrieval_attempts)>>)

C19_Witness ==
    /\ node = "END"
    /\ oracle = [site |-> "collect_feedback",
                 response |-> Some([is_satisfied |-> FALSE, is_uncertain |-> FALSE])]
    /\ Len(tickets) = 2
    /\ state.gatherer_attempts # state.retrieval_attempts
    /\ state.classified_question # <<>>

-----------------------------------------------------------------------------
(* pdf_fallback (PdfSpec) *)

\* None of the listed pages that the document has carries text
PagesBlank(pdf_path, page_numbers) ==
    \A k \in 1..Len(page_numbers) :
        page_numbers[k] \in 1..Len(PdfPages(pdf_path)) =>
            \A c \in 1..Len(PdfPages(pdf_path)[page_numbers[k]]) :
                PdfPages(pdf_path)[page_numbers[k]][c] \in Whitespace

\* The failures of pdf_fallback on state s when the table-of-contents
\* analysis, if it is called, yields toc
PdfFailure(s, toc) ==
    LET pdf_url == get_most_frequent_pdf_url(s.rag_history)
    IN  \/ pdf_url = None
        \/ find_pdf_on_disk(pdf_url[1]) = None
        \/ LET pdf_path == find_pdf_on_disk(pdf_url[1])[1]
               page_count == Len(PdfPages(pdf_path))
           IN  IF page_count <= 10
               THEN PagesBlank(pdf_path, Range1(1, page_count))
               ELSE \/ PagesBlank(pdf_path, Range1(1, 10))
                    \/ toc = None
                    \/ ~toc[1].has_toc
                    \/ toc[1].relevant_pages = <<>>
                    \/ PagesBlank(pdf_path, toc[1].relevant_pages)

\* C20: a step of pdf_fallback fails exactly when there is no PDF URL in
\* the history, the file is not on disk, the text of the whole small
\* document, of the first 10 pages or of the selected pages is empty, the
\* analysis call failed, it found no table of contents, or it listed no
\* pages; a failed step sets pdf_fallback_used to false, changes nothing
\* else (final_answer included) and makes escalate due.
C20_FallbackFailureEscalates ==
    [][node = "pdf_fallback" /\ trace' = Append(trace, "pdf_fallback") =>
          LET toc == IF oracle'.site = "pdf_fallback" THEN oracle'.response ELSE None
          IN  /\ PdfFailure(state, toc) <=> ~state'.pdf_fallback_used
              /\ ~state'.pdf_fallback_used =>
                    /\ state' = [state EXCEPT !.pdf_fallback_used = FALSE]
                    /\ state'.final_answer = state.final_answer
                    /\ node' = "escalate"
      ]_vars

C20_Witness ==
    /\ node = "escalate"
    /\ Last(trace) = "pdf_fallback"
    /\ get_most_frequent_pdf_url(state.rag_history) = Some(UrlScanLarge)
    /\ state.final_answer = <<"Reseat the memory modules.">>
    /\ ~state.pdf_fallback_used

\* The document pdf_fallback works on in s, when there is one on disk
HasDocument(s) ==
    /\ get_most_frequent_pdf_url(s.rag_history) # None
    /\ find_pdf_on_disk(get_most_frequent_pdf_url(s.rag_history)[1]) # None

DocumentUrl(s) == get_most_frequent_pdf_url(s.rag_history)[1]

DocumentPages(s) == PdfPages(find_pdf_on_disk(DocumentUrl(s))[1])

HasText(page) == \E c \in 1..Len(page) : page[c] \notin Whitespace

\* The places of answer where the block of page i begins
PageBlockAt(answer, i) ==
    {k \in 1..(Len(answer) - 2) :
        /\ answer[k] = "--- Page "
        /\ answer[k + 1] = Str(i)
        /\ answer[k + 2] = " ---\n"}

\* answer carries, after its annotation, the text of the pages of doc listed
\* in page_numbers that have text: each under its own header, in the order
\* of page_numbers, and the text of no other page.
CarriesPages(answer, doc, page_numbers) ==
    LET shown == SelectSeq(page_numbers,
                           LAMBDA n : n \in 1..Len(doc) /\ HasText(doc[n]))
    IN  /\ Cardinality({k \in 1..Len(answer) : answer[k] = "--- Page "}) = Len(shown)
        /\ \A j \in 1..Len(shown) :
              \E k \in PageBlockAt(answer, shown[j]) :
                  /\ k + 2 + Len(doc[shown[j]]) <= Len(answer)
                  /\ SubSeq(answer, k + 3, k + 2 + Len(doc[shown[j]])) = doc[shown[j]]
                  /\ Cardinality({m \in 1..k : answer[m] = "--- Page "}) = j
        /\ shown # <<>> =>
              LET last == shown[Len(shown)]
              IN  SubSeq(answer, Len(answer) - Len(doc[last]) + 1, Len(answer)) = doc[last]

PdfFallbackStep == node = "pdf_fallback" /\ trace' = Append(trace, "pdf_fallback")

SectionAnswered ==
    /\ node = "present_fallback_answer"
    /\ Last(trace) = "pdf_fallback"
    /\ oracle.site = "pdf_fallback"

\* The pages named by the "Pages: " annotation of answer
NamedPages(answer) ==
    LET a == CHOOSE k \in 1..Len(answer) : answer[k] = "Pages: "
        z == CHOOSE k \in (a + 1)..Len(answer) :
                 answer[k] = "\n\n" /\ \A m \in (a + 1)..(k - 1) : answer[m] # "\n\n"
    IN  {n \in 1..30 : \E k \in (a + 1)..(z - 1) : answer[k] = Str(n)}

\* The pages whose text answer includes
IncludedPages(answer) == {n \in 1..30 : PageBlockAt(answer, n) # {}}

\* C22: when pdf_fallback answers with a section, the answer includes the
\* text of each page the analysis listed, once and in the order listed,
\* its "Pages: " annotation names exactly the pages whose text it
\* includes, and it carries the section title when the analysis gave one.
C22_ExactlyListedPages ==
    SectionAnswered =>
        LET toc == oracle.response[1]
            answer == state.final_answer
            listed == toc.relevant_pages
        IN  /\ \A j \in 1..Len(listed) : Cardinality(PageBlockAt(answer, listed[j])) = 1
            /\ \A i, j \in 1..Len(listed) :
                  i < j => \A k \in PageBlockAt(answer, listed[i]),
                              m \in PageBlockAt(answer, listed[j]) : k < m
            /\ IncludedPages(answer) = {listed[j] : j \in 1..Len(listed)}
            /\ NamedPages(answer) = IncludedPages(answer)
            /\ toc.most_relevant_section_title # <<>> =>
                  \E k \in 1..Len(answer) :
                      /\ answer[k] = "Relevant section: "
                      /\ SubSeq(answer, k + 1, k + Len(toc.most_relevant_section_title))
                            = toc.most_relevant_section_title

\* C23: a section answer of pdf_fallback contains the text of at most 20
\* pages, whatever page list the analysis returned.
C23_AtMostTwentyPages ==
    SectionAnswered =>
        /\ Cardinality(IncludedPages(state.final_answer)) <= 20
        /\ Cardinality({k \in 1..Len(state.final_answer) :
                           state.final_answer[k] = "--- Page "}) <= 20

\* The places of history h that cite u: <<entry, index in the entry's urls>>
Citations(h, u) ==
    {<<i, k>> \in (1..Len(h)) \X (1..4) : k <= Len(h[i].urls) /\ h[i].urls[k] = u}

CitedPdfs(h) ==
    {u \in {UrlSmall, UrlLarge, UrlMissing, UrlScan, UrlScanLarge, UrlWeb} :
        IsPdfUrl(u) /\ Citations(h, u) # {}}

Before(a, b) == a[1] < b[1] \/ (a[1] = b[1] /\ a[2] < b[2])

\* u is cited in h before v is
CitedFirst(h, u, v) ==
    \E a \in Citations(h, u) : \A b \in Citations(h, v) : Before(a, b)

\* C24: pdf_fallback works on the PDF URL cited most often in the whole
\* history, URLs that are no PDF not counting; among the PDF URLs cited
\* most often it is the one cited first; there is none iff the history
\* cites no PDF.  A successful fallback names that URL as its source.
C24_MostCitedFirstSeen ==
    LET h == state.rag_history
        picked == get_most_frequent_pdf_url(h)
    IN  /\ picked = None <=> CitedPdfs(h) = {}
        /\ picked # None =>
              /\ picked[1] \in CitedPdfs(h)
              /\ \A v \in CitedPdfs(h) \ {picked[1]} :
                    \/ Cardinality(Citations(h, picked[1])) > Cardinality(Citations(h, v))
                    \/ /\ Cardinality(Citations(h, picked[1])) = Cardinality(Citations(h, v))
                       /\ CitedFirst(h, picked[1], v)
        /\ Last(trace) = "pdf_fallback" /\ state.pdf_fallback_used =>
              picked # None /\ SubSeq(state.final_answer, 4, 5) = <<"Source: ", picked[1]>>

C24_Witness ==
    /\ Last(trace) = "pdf_fallback"
    /\ state.pdf_fallback_used
    /\ Cardinality(Citations(state.rag_history, UrlSmall)) = 2
    /\ Cardinality(Citations(state.rag_history, UrlLarge)) = 2
    /\ Cardinality(Citations(state.rag_history, UrlWeb)) = 4
    /\ CitedFirst(state.rag_history, UrlLarge, UrlSmall)
    /\ state.final_answer[5] = UrlLarge

\* The data rows of a file
DataRows(file) == {i \in 1..Len(file) : file[i].row = "data"}

\* C25: escalate runs at most once, sets escalated_to_human and the notice
\* as final_answer, and only log_pre_feedback and log_result run after it:
\* the flag is never reset (it is set by escalate alone), the answer stays
\* the notice, and the rows both logging stages write say escalated.
C25_EscalatedNeverReset ==
    /\ CountIn(trace, "escalate") <= 1
    /\ state.escalated_to_human <=> CountIn(trace, "escalate") = 1
    /\ \A i \in 1..Len(trace) : trace[i] = "escalate" =>
          /\ state.final_answer = EscalationNotice
          /\ \A k \in (i + 1)..Len(trace) : trace[k] \in {"log_pre_feedback", "log_result"}
          /\ node \in {"log_pre_feedback", "log_result", "END", "ERROR"}
          /\ CountIn(trace, "log_pre_feedback") <= 1
          /\ CountIn(trace, "log_result") <= 1
          /\ \A r \in DataRows(support_log) :
                support_log[r].escalated /\ support_log[r].status = "escalated"
          /\ Cardinality(DataRows(support_log)) =
                CountIn(trace, "log_pre_feedback") + CountIn(trace, "log_result")
          /\ \A r \in DataRows(tickets) :
                tickets[r].escalated /\ tickets[r].answer_given = EscalationNotice
          /\ Cardinality(DataRows(tickets)) = CountIn(trace, "log_result")

\* An escalated session that ended, both rows and the ticket written
C25_Witness ==
    /\ node = "END"
    /\ CountIn(trace, "escalate") = 1
    /\ CountIn(trace, "present_answer") = 1
    /\ Cardinality(DataRows(support_log)) = 2
    /\ Cardinality(DataRows(tickets)) = 1

\* The retrieve + assess rounds of the session so far
RoundsPerformed == CountIn(trace, "quality_checker")

\* The rounds since the retrieval loop was last entered: since the
\* actionable clarification when there was one, else since the start
RoundsSinceRestart ==
    IF state.clarification_is_actionable
    THEN Cardinality({i \in 1..Len(trace) :
            /\ trace[i] = "quality_checker"
            /\ \E k \in 1..(i - 1) : trace[k] = "clarification_assessor"})
    ELSE RoundsPerformed

\* The retrieval attempts printed in a ticket description
TicketRetrievalAttempts(ticket) ==
    SubSeq(ticket.description, Len(ticket.description) - 2, Len(ticket.description))

\* The rows written so far and the ticket all carry n retrieval attempts
RecordsSay(n) ==
    /\ \A r \in DataRows(support_log) : support_log[r].retrieval_attempts = n
    /\ \A r \in DataRows(tickets) :
          TicketRetrievalAttempts(tickets[r]) = <<"Retrieval attempts: ", Str(n), ".">>

Logged == CountIn(trace, "log_pre_feedback") = 1

\* C26 as stated: the retrieval_attempts of the rows and of the ticket is
\* the number of retrieve + assess rounds of the session, the length of
\* rag_history.
C26_AttemptsAreAllRounds ==
    Logged => /\ Len(state.rag_history) = RoundsPerformed
              /\ RecordsSay(RoundsPerformed)

\* C26 amended: the retrieval_attempts of the rows and of the ticket is the
\* number of rounds since the retrieval loop was last entered; rag_history
\* holds one entry per round of the whole session, so the two agree exactly
\* when no clarification was judged actionable, and after an actionable
\* clarification the history is longer by the rounds before it.
C26_AttemptsAreRoundsSinceRestart ==
    Logged =>
        /\ Len(state.rag_history) = RoundsPerformed
        /\ RecordsSay(RoundsSinceRestart)
        /\ Cardinality(DataRows(support_log)) =
              CountIn(trace, "log_pre_feedback") + CountIn(trace, "log_result")
        /\ state.retrieval_attempts = RoundsSinceRestart
        /\ ~state.clarification_is_actionable => RoundsSinceRestart = RoundsPerformed
        /\ state.clarification_is_actionable =>
              /\ RoundsSinceRestart \in 1..MAX_RETRIEVAL_ATTEMPTS
              /\ RoundsPerformed - RoundsSinceRestart \in 1..MAX_RETRIEVAL_ATTEMPTS

\* A session with three rounds before the actionable clarification and two
\* after it, ended with a ticket
C26_Witness ==
    /\ node = "END"
    /\ state.clarification_is_actionable
    /\ Len(state.rag_history) = 5
    /\ Cardinality(DataRows(tickets)) = 1
    /\ RecordsSay(2)

AskForClarificationStep ==
    node = "ask_for_clarification" /\ trace' = Append(trace, "ask_for_clarification")

\* The step took this line from the user
Typed(line) == state' = Merge(state, ask_for_clarification_node(state, line))

\* The clarification was skipped: marked done and non-actionable, the next
\* stage log_pre_feedback, no oracle call, every other field as it was
SkippedClarification ==
    /\ node' = "log_pre_feedback"
    /\ oracle' = oracle
    /\ state' = [state EXCEPT !.user_clarification = <<>>,
                              !.clarification_is_actionable = FALSE,
                              !.clarification_used = TRUE]
    /\ state'.retrieval_attempts = state.retrieval_attempts
    /\ state'.information_gap = state.information_gap
    /\ state'.rag_history = state.rag_history
    /\ state'.final_answer = state.final_answer

\* Once skipped, clarification_assessor never runs in the session
SkippedForGood ==
    CountIn(trace, "ask_for_clarification") = 1 /\ state.user_clarification = <<>> =>
        /\ CountIn(trace, "clarification_assessor") = 0
        /\ node # "clarification_assessor"
        /\ oracle.site # "clarification_assessor"
        /\ state.clarification_used
        /\ ~state.clarification_is_actionable
        /\ Len(state.rag_history) <= MAX_RETRIEVAL_ATTEMPTS

\* C27 as stated: an empty line is a skipped clarification and every
\* non-empty line goes to clarification_assessor.
C27_EmptyLineSkips ==
    [][/\ SkippedForGood'
       /\ AskForClarificationStep =>
             \A line \in Clarifications : Typed(line) =>
                 IF line = <<>> THEN SkippedClarification
                 ELSE node' = "clarification_assessor"]_vars

\* C27 amended: a line that is empty once its leading and trailing
\* whitespace is stripped is a skipped clarification; every other line goes
\* to clarification_assessor, its stripped text kept as user_clarification
\* and nothing else changed.
C27_BlankLineSkips ==
    [][/\ SkippedForGood'
       /\ AskForClarificationStep =>
             /\ \E line \in Clarifications : Typed(line)
             /\ \A line \in Clarifications : Typed(line) =>
                   IF Strip(line) = <<>> THEN SkippedClarification
                   ELSE /\ node' = "clarification_assessor"
                        /\ oracle' = oracle
                        /\ state' = [state EXCEPT !.user_clarification = Strip(line)]]_vars

\* A skipped clarification, logged without an assessment
C27_Witness ==
    /\ CountIn(trace, "ask_for_clarification") = 1
    /\ state.user_clarification = <<>>
    /\ state.clarification_used
    /\ CountIn(trace, "log_pre_feedback") = 1
    /\ CountIn(trace, "clarification_assessor") = 0

\* The stages of the answer, clarification and retrieval loops
LoopStages ==
    {"product_selector", "information_gatherer", "ask_user_for_details",
     "rag_retriever", "quality_checker", "answer_formulator", "present_answer",
     "ask_for_clarification", "clarification_assessor", "pdf_fallback"}

\* C28: present_fallback_answer is always followed by log_pre_feedback;
\* ask_for_clarification runs only right after present_answer; and once
\* pdf_fallback answered or the session escalated, no clarification prompt,
\* no assessment of one and no retrieval round follows.
C28_FallbackEndsTheLoops ==
    /\ \A i \in 1..Len(trace) :
          /\ trace[i] = "present_fallback_answer" => NextAfter(i) = "log_pre_feedback"
          /\ trace[i] = "escalate" => NextAfter(i) = "log_pre_feedback"
          /\ trace[i] = "ask_for_clarification" => i > 1 /\ trace[i - 1] = "present_answer"
          /\ trace[i] \in {"pdf_fallback", "present_fallback_answer", "escalate"} =>
                /\ \A k \in (i + 1)..Len(trace) : trace[k] \notin LoopStages
                /\ node \notin LoopStages
    /\ node = "ask_for_clarification" => Last(trace) = "present_answer"

\* A session that asked for a clarification, retrieved again, gave the
\* document answer and ended
C28_Witness ==
    /\ node = "END"
    /\ CountIn(trace, "present_fallback_answer") = 1
    /\ CountIn(trace, "ask_for_clarification") = 1
    /\ CountIn(trace, "collect_feedback") = 1

QualityCheckerStep ==
    node = "quality_checker" /\ trace' = Append(trace, "quality_checker")

\* The oracle judged the round that just ended sufficient
JudgedSufficient ==
    /\ oracle'.site = "quality_checker"
    /\ oracle'.response # None
    /\ oracle'.response[1].is_sufficient

\* C29: a round judged sufficient leads to answer_formulator whatever the
\* count, the third round included; a round judged insufficient (or whose
\* assessment failed) leads to rag_retriever while the count is below
\* MAX_RETRIEVAL_ATTEMPTS and to pdf_fallback otherwise; and
\* answer_formulator becomes due by no other step.
C29_SufficiencyBeforeExhaustion ==
    [][/\ QualityCheckerStep =>
             /\ state'.retrieval_attempts = state.retrieval_attempts + 1
             /\ state'.is_context_sufficient <=> JudgedSufficient
             /\ node' = IF JudgedSufficient THEN "answer_formulator"
                        ELSE IF state'.retrieval_attempts < MAX_RETRIEVAL_ATTEMPTS
                             THEN "rag_retriever"
                        ELSE "pdf_fallback"
       /\ node' = "answer_formulator" /\ node # "answer_formulator" =>
             QualityCheckerStep /\ JudgedSufficient
       /\ \A i \in 1..Len(trace') : trace'[i] = "answer_formulator" =>
             i > 1 /\ trace'[i - 1] = "quality_checker"]_vars

\* The third round was judged sufficient and the answer is due
C29_Witness ==
    /\ node = "answer_formulator"
    /\ Last(trace) = "quality_checker"
    /\ state.retrieval_attempts = MAX_RETRIEVAL_ATTEMPTS
    /\ state.is_context_sufficient
    /\ CountIn(trace, "clarification_assessor") = 1

\* The gather round that just ended returned has_enough_info = True
GatherSucceeded ==
    /\ node = "information_gatherer"
    /\ trace' = Append(trace, "information_gatherer")
    /\ oracle'.site = "information_gatherer"
    /\ oracle'.response # None
    /\ oracle'.response[1].has_enough_info

\* C30: classified_question changes only on a gather round that returned
\* has_enough_info = True, to the question of that response; it is empty
\* while no round has succeeded, whatever the insufficient rounds returned,
\* so that after MAX_GATHERER_ATTEMPTS insufficient or failed rounds the
\* retrieval loop runs and the rows and the ticket are written with an
\* empty question.
C30_QuestionOnlyFromSuccess ==
    [][/\ state'.classified_question # state.classified_question =>
             /\ GatherSucceeded
             /\ state'.classified_question = oracle'.response[1].classified_question
       /\ GatherSucceeded => state'.has_enough_info
       /\ ~state'.has_enough_info =>
             /\ state'.classified_question = <<>>
             /\ \A i \in 1..Len(state'.rag_history) :
                   state'.rag_history[i].query \in
                      {<<state'.product_name, " ">>, SearchQuery1}
       /\ \A r \in DataRows(support_log') :
             support_log'[r].question = state'.classified_question
       /\ \A r \in DataRows(tickets') :
             /\ tickets'[r].question = state'.classified_question
             /\ tickets'[r].description[4] = ". Question: "
             /\ SubSeq(tickets'[r].description, 5, 4 + Len(state'.classified_question))
                   = state'.classified_question
             /\ tickets'[r].description[5 + Len(state'.classified_question)] = ". "]_vars

\* All the gather rounds were insufficient; the session retrieved, answered
\* and wrote its rows and its ticket with an empty question
C30_Witness ==
    /\ node = "END"
    /\ ~state.has_enough_info
    /\ state.gatherer_attempts = MAX_GATHERER_ATTEMPTS
    /\ state.classified_question = <<>>
    /\ CountIn(trace, "quality_checker") >= 1
    /\ Cardinality(DataRows(support_log)) = 2
    /\ Cardinality(DataRows(tickets)) = 1
    /\ \A r \in DataRows(support_log) : support_log[r].question = <<>>

\* The assessment call of the round that just ended failed
AssessmentFailed ==
    QualityCheckerStep /\ oracle'.site = "quality_checker" /\ oracle'.response = None

\* The n stage pairs before position i of the trace are rounds
RoundsBefore(i, n) ==
    /\ i > 2 * n
    /\ \A k \in 1..n : /\ trace[i - 2 * k] = "rag_retriever"
                       /\ trace[i - 2 * k + 1] = "quality_checker"

\* C31: a round whose assessment call failed is an insufficient round:
\* is_context_sufficient false, one more retrieval attempt, the fixed message
\* as information_gap, nothing else changed but the message list; the next
\* stage is rag_retriever below MAX_RETRIEVAL_ATTEMPTS and pdf_fallback at
\* it.  The count never passes MAX_RETRIEVAL_ATTEMPTS and pdf_fallback is due
\* only when the MAX_RETRIEVAL_ATTEMPTS stage pairs before it are rounds, so
\* a cycle whose every assessment fails has exactly that many rounds.
C31_FailedAssessmentIsInsufficient ==
    [][/\ AssessmentFailed =>
             /\ state' = [state EXCEPT
                            !.is_context_sufficient = FALSE,
                            !.retrieval_attempts = state.retrieval_attempts + 1,
                            !.information_gap = AssessFailedGap,
                            !.messages = Append(state.messages, "ai")]
             /\ node' = IF state.retrieval_attempts + 1 < MAX_RETRIEVAL_ATTEMPTS
                        THEN "rag_retriever" ELSE "pdf_fallback"
       /\ state'.retrieval_attempts <= MAX_RETRIEVAL_ATTEMPTS
       /\ node' = "pdf_fallback" =>
             /\ state'.retrieval_attempts = MAX_RETRIEVAL_ATTEMPTS
             /\ ~state'.is_context_sufficient
             /\ RoundsBefore(Len(trace) + 1, MAX_RETRIEVAL_ATTEMPTS)'
             /\ trace'[Len(trace') - 2 * MAX_RETRIEVAL_ATTEMPTS]
                   \in {"information_gatherer", "clarification_assessor"}]_vars

\* The third assessment failed and pdf_fallback is due
C31_Witness ==
    /\ node = "pdf_fallback"
    /\ oracle = [site |-> "quality_checker", response |-> None]
    /\ state.information_gap = AssessFailedGap
    /\ state.retrieval_attempts = MAX_RETRIEVAL_ATTEMPTS
    /\ CountIn(trace, "quality_checker") = MAX_RETRIEVAL_ATTEMPTS

RagRetrieverStep == node = "rag_retriever" /\ trace' = Append(trace, "rag_retriever")

\* The history entry of one search for query, for the product of state
SearchEntry(query) ==
    [query |-> query,
     context |-> rag_search(state.product_name, query)[1],
     urls |-> rag_search(state.product_name, query)[2]]

\* C32: rag_retriever appends exactly one history entry, the result of one
\* search: for the query the oracle returned, or, when the call failed, for
\* the fallback query "<product_name> <classified_question>"; the next stage
\* is quality_checker; and nothing but rag_history and the message list
\* changes (retrieval_attempts, information_gap and final_answer included).
C32_RetrieveFallbackQuery ==
    [][RagRetrieverStep =>
          LET query == IF oracle'.response = None
                       THEN <<state.product_name, " ">> \o state.classified_question
                       ELSE oracle'.response[1].search_query
          IN  /\ oracle'.site = "rag_retriever"
              /\ Len(state'.rag_history) = Len(state.rag_history) + 1
              /\ state' = [state EXCEPT
                             !.rag_history = Append(state.rag_history, SearchEntry(query)),
                             !.messages = Append(state.messages, "ai")]
              /\ state'.retrieval_attempts = state.retrieval_attempts
              /\ state'.information_gap = state.information_gap
              /\ state'.final_answer = state.final_answer
              /\ node' = "quality_checker"]_vars

\* The call failed in the second cycle and the fallback query found the
\* setup guide
C32_Witness ==
    /\ node = "quality_checker"
    /\ Last(trace) = "rag_retriever"
    /\ oracle = [site |-> "rag_retriever", response |-> None]
    /\ state.clarification_is_actionable
    /\ state.classified_question # <<>>
    /\ Last(state.rag_history).query =
          <<state.product_name, " ">> \o state.classified_question
    /\ Last(state.rag_history).urls = <<UrlSmall, UrlWeb>>

ClarificationAssessorStep ==
    node = "clarification_assessor" /\ trace' = Append(trace, "clarification_assessor")

\* The assessment that just ended failed or judged the input not actionable
NotActionableVerdict ==
    /\ oracle'.site = "clarification_assessor"
    /\ \/ oracle'.response = None
       \/ ~oracle'.response[1].is_actionable

\* C33: a clarification whose assessment failed or judged it not actionable
\* is marked used and not actionable, every other field stays as it was
\* (retrieval_attempts, information_gap, rag_history and final_answer
\* included, whatever gap the response carried), log_pre_feedback is next and
\* no stage of a loop runs afterwards.
C33_NotActionableChangesNothing ==
    [][/\ ClarificationAssessorStep /\ NotActionableVerdict =>
             /\ state' = [state EXCEPT !.clarification_is_actionable = FALSE,
                                       !.clarification_used = TRUE]
             /\ state'.retrieval_attempts = state.retrieval_attempts
             /\ state'.information_gap = state.information_gap
             /\ state'.rag_history = state.rag_history
             /\ state'.final_answer = state.final_answer
             /\ node' = "log_pre_feedback"
       /\ \A i \in 1..Len(trace') :
             trace'[i] = "clarification_assessor" /\ ~state'.clarification_is_actionable =>
                /\ \A k \in (i + 1)..Len(trace') : trace'[k] \notin LoopStages
                /\ node' \notin LoopStages]_vars

\* The assessment failed after a third round judged sufficient; the session
\* ended without another retrieval
C33_Witness ==
    /\ node = "END"
    /\ CountIn(trace, "clarification_assessor") = 1
    /\ ~state.clarification_is_actionable
    /\ state.clarification_used
    /\ state.retrieval_attempts = MAX_RETRIEVAL_ATTEMPTS
    /\ Len(state.rag_history) = MAX_RETRIEVAL_ATTEMPTS

\* The position of the only run of stage n in the trace
StageAt(n) == CHOOSE i \in 1..Len(trace) : trace[i] = n

\* C34: a session that reached END wrote exactly two rows to the support
\* log, after the header: the row of log_pre_feedback (status escalated when
\* the session escalated, else pending_feedback; no feedback in it), written
\* before collect_feedback ran, then the row of log_result, written after
\* collect_feedback or, when the session escalated, right after
\* log_pre_feedback.
C34_TwoRowsInOrder ==
    /\ AtTerminalStage \/ node = "collect_feedback" =>
          /\ CountIn(trace, "log_pre_feedback") = 1
          /\ Len(support_log) >= 2
          /\ support_log[1] = SUPPORT_LOG_HEADERS
          /\ support_log[2].row = "data"
          /\ support_log[2].status =
                (IF state.escalated_to_human THEN "escalated" ELSE "pending_feedback")
          /\ ~support_log[2].feedback_collected
          /\ ~support_log[2].user_satisfied
          /\ ~support_log[2].feedback_uncertain
    /\ node = "collect_feedback" =>
          /\ Len(support_log) = 2
          /\ CountIn(trace, "collect_feedback") = 0
    /\ node = "log_result" => Len(support_log) = 2
    /\ node = "END" =>
          /\ Len(support_log) = 3
          /\ Cardinality(DataRows(support_log)) = 2
          /\ support_log[3].row = "data"
          /\ support_log[3].status \in {"escalated", "success", "failure"}
          /\ CountIn(trace, "log_result") = 1
          /\ Last(trace) = "log_result"
          /\ IF state.escalated_to_human
             THEN /\ CountIn(trace, "collect_feedback") = 0
                  /\ StageAt("log_result") = StageAt("log_pre_feedback") + 1
             ELSE /\ CountIn(trace, "collect_feedback") = 1
                  /\ StageAt("collect_feedback") = StageAt("log_pre_feedback") + 1
                  /\ StageAt("log_result") = StageAt("collect_feedback") + 1

\* An escalated session and its two rows
C34_Witness ==
    /\ node = "END"
    /\ state.escalated_to_human
    /\ Len(support_log) = 3
    /\ support_log[2].status = "escalated"
    /\ ~support_log[2].feedback_collected

\* C35: the row log_result writes has status escalated iff the session
\* escalated, success iff it did not and the user was satisfied, failure iff
\* it did not and the user was not; never pending_feedback; and
\* feedback_collected in it is true iff the session did not escalate.
C35_FinalStatusFromFlags ==
    node = "END" =>
        LET final == support_log[Len(support_log)]
        IN  /\ final.row = "data"
            /\ final.escalated = state.escalated_to_human
            /\ final.user_satisfied = state.user_satisfied
            /\ final.status = "escalated" <=> state.escalated_to_human
            /\ final.status = "success" <=>
                  ~state.escalated_to_human /\ state.user_satisfied
            /\ final.status = "failure" <=>
                  ~state.escalated_to_human /\ ~state.user_satisfied
            /\ final.status # "pending_feedback"
            /\ final.feedback_collected <=> ~state.escalated_to_human
            /\ final.feedback_collected <=> CountIn(trace, "collect_feedback") = 1

\* A session that ended with a satisfied user
C35_Witness ==
    /\ node = "END"
    /\ support_log[Len(support_log)].status = "success"
    /\ support_log[Len(support_log)].feedback_collected
    /\ state.pdf_fallback_used

\* C36: no session needs more than RecursionLimit stages: once that many
\* stages have run the session is over, no stage is due.
C36_WithinStepBudget ==
    Len(trace) >= RecursionLimit => node = "END"

\* The places of the trace where rag_retriever follows clarification_assessor
Restarts ==
    {i \in 1..Len(trace) :
        trace[i] = "clarification_assessor" /\ NextAfter(i) = "rag_retriever"}

\* C37: rag_retriever follows clarification_assessor at most once in a
\* session, so there are at most two retrieval cycles: rag_retriever runs at
\* most 2 * MAX_RETRIEVAL_ATTEMPTS times and rag_history never holds more
\* entries than that.
C37_AtMostTwoCycles ==
    /\ Cardinality(Restarts) <= 1
    /\ CountIn(trace, "clarification_assessor") <= 1
    /\ CountIn(trace, "rag_retriever") <= 2 * MAX_RETRIEVAL_ATTEMPTS
    /\ CountIn(trace, "quality_checker") <= 2 * MAX_RETRIEVAL_ATTEMPTS
    /\ Len(state.rag_history) <= 2 * MAX_RETRIEVAL_ATTEMPTS
    /\ Restarts = {} => Len(state.rag_history) <= MAX_RETRIEVAL_ATTEMPTS
    /\ \A i \in Restarts :
          /\ CountIn(SubSeq(trace, 1, i), "rag_retriever") <= MAX_RETRIEVAL_ATTEMPTS
          /\ CountIn(SubSeq(trace, i + 1, Len(trace)), "rag_retriever")
                <= MAX_RETRIEVAL_ATTEMPTS

\* Two full cycles and the session ended
C37_Witness ==
    /\ node = "END"
    /\ Cardinality(Restarts) = 1
    /\ Len(state.rag_history) = 2 * MAX_RETRIEVAL_ATTEMPTS
    /\ CountIn(trace, "present_answer") = 2

\* C38: escalate runs only right after a pdf_fallback that produced no
\* answer (pdf_fallback_used false), itself right after
\* MAX_RETRIEVAL_ATTEMPTS rounds that were all judged insufficient (each
\* followed by another round or by pdf_fallback); pdf_fallback and escalate
\* each run at most once in a session.
C38_EscalateOnlyAfterFailedFallback ==
    /\ CountIn(trace, "pdf_fallback") <= 1
    /\ CountIn(trace, "escalate") <= 1
    /\ node = "escalate" =>
          /\ Last(trace) = "pdf_fallback"
          /\ ~state.pdf_fallback_used
          /\ CountIn(trace, "escalate") = 0
    /\ node = "pdf_fallback" => CountIn(trace, "pdf_fallback") = 0
    /\ \A i \in 1..Len(trace) :
          /\ trace[i] = "escalate" =>
                /\ i > 1
                /\ trace[i - 1] = "pdf_fallback"
                /\ ~state.pdf_fallback_used
                /\ ~state.is_context_sufficient
                /\ state.retrieval_attempts = MAX_RETRIEVAL_ATTEMPTS
          /\ trace[i] = "pdf_fallback" =>
                /\ RoundsBefore(i, MAX_RETRIEVAL_ATTEMPTS)
                /\ NextAfter(i) \in {"present_fallback_answer", "escalate", "ERROR"}

\* The analysis of the owner's manual failed and the session escalated
C38_Witness ==
    /\ node = "log_pre_feedback"
    /\ Last(trace) = "escalate"
    /\ oracle.site = "pdf_fallback"
    /\ get_most_frequent_pdf_url(state.rag_history) = Some(UrlLarge)
    /\ ~state.pdf_fallback_used

PresentedFallback ==
    node = "present_fallback_answer" \/ CountIn(trace, "present_fallback_answer") = 1

\* C39: pdf_fallback_used is true exactly when pdf_fallback supplied the
\* answer: from the successful pdf_fallback step on, present_fallback_answer
\* is due or has run and final_answer is the document excerpt; otherwise the
\* flag is false and the answer no excerpt.  At the terminal stage the flag
\* is true iff present_fallback_answer ran and final_answer is the excerpt;
\* pdf_fallback_used and escalated_to_human are never both true.
C39_FallbackUsedIffExcerpt ==
    /\ state.pdf_fallback_used <=> PresentedFallback
    /\ state.pdf_fallback_used <=> IsDocumentExcerpt(state.final_answer)
    /\ state.pdf_fallback_used => CountIn(trace, "pdf_fallback") = 1
    /\ ~(state.pdf_fallback_used /\ state.escalated_to_human)
    /\ CountIn(trace, "escalate") = 1 => ~state.pdf_fallback_used
    /\ AtTerminalStage =>
          (state.pdf_fallback_used <=>
              /\ CountIn(trace, "present_fallback_answer") = 1
              /\ IsDocumentExcerpt(state.final_answer))
    /\ \A r \in DataRows(tickets) :
          IsDocumentExcerpt(tickets[r].answer_given) <=> state.pdf_fallback_used

\* A session whose second cycle ended with the document answer, which the
\* user did not accept
C39_Witness ==
    /\ node = "END"
    /\ state.pdf_fallback_used
    /\ CountIn(trace, "present_answer") = 1
    /\ CountIn(trace, "present_fallback_answer") = 1
    /\ Cardinality(DataRows(tickets)) = 1
    /\ IsDocumentExcerpt(state.final_answer)

-----------------------------------------------------------------------------
(* logging_/: write_support_log and write_ticket step by step, called by   *)
(* sessions that run as processes of their own on the same logs/ (LogSpec). *)
(* The variables of the single session of the other specifications stay as *)
(* they are.                                                                *)

\* A session of chat c that answered, was not asked to clarify further and
\* collected the verdict satisfied
FeedbackGiven(c, satisfied) ==
    LET s == [Clarified("general", <<>>) EXCEPT !.chat_id = c]
    IN  Merge(s, feedback_collector_node(s,
                    Some([is_satisfied |-> satisfied, is_uncertain |-> FALSE])))

\* The calls log_pre_feedback_node and log_result_node make, in order
LogWrites(s) ==
    <<[file |-> SUPPORT_LOG_CSV, headers |-> SUPPORT_LOG_HEADERS,
       row |-> log_pre_feedback_row(s)],
      [file |-> SUPPORT_LOG_CSV, headers |-> SUPPORT_LOG_HEADERS,
       row |-> log_result_row(s)]>>
    \o (IF log_result_writes_ticket(s)
        THEN <<[file |-> TICKETS_CSV, headers |-> TICKET_HEADERS, row |-> ticket_row(s)]>>
        ELSE <<>>)

\* file_exists = SUPPORT_LOG_CSV.exists()
CheckExists(c) ==
    /\ writers[c].pc = "exists"
    /\ writers' = [writers EXCEPT
                      ![c].file_exists = Head(writers[c].todo).file \in log_files,
                      ![c].pc = "open"]
    /\ UNCHANGED <<state, node, trace, support_log, tickets, oracle, retry, log_files>>

\* open(SUPPORT_LOG_CSV, "a"): the file is created when it is not there
OpenAppend(c) ==
    /\ writers[c].pc = "open"
    /\ log_files' = log_files \cup {Head(writers[c].todo).file}
    /\ writers' = [writers EXCEPT ![c].pc = "writerow"]
    /\ UNCHANGED <<state, node, trace, support_log, tickets, oracle, retry>>

\* writer.writerow(HEADERS) if not file_exists, writer.writerow([...]): both
\* rows go to the buffer of f
Writerow(c) ==
    /\ writers[c].pc = "writerow"
    /\ writers' = [writers EXCEPT
                      ![c].buffer = (IF writers[c].file_exists THEN <<>>
                                     ELSE <<Head(writers[c].todo).headers>>)
                                    \o <<Head(writers[c].todo).row>>,
                      ![c].pc = "close"]
    /\ UNCHANGED <<state, node, trace, support_log, tickets, oracle, retry, log_files>>

\* The with block ends: the buffer is appended to the file
Close(c) ==
    /\ writers[c].pc = "close"
    /\ IF Head(writers[c].todo).file = SUPPORT_LOG_CSV
       THEN support_log' = support_log \o writers[c].buffer /\ UNCHANGED tickets
       ELSE tickets' = tickets \o writers[c].buffer /\ UNCHANGED support_log
    /\ writers' = [writers EXCEPT
                      ![c].buffer = <<>>,
                      ![c].todo = Tail(@),
                      ![c].pc = IF Len(writers[c].todo) > 1 THEN "exists" ELSE "done"]
    /\ UNCHANGED <<state, node, trace, oracle, retry, log_files>>

\* Two sessions at log_pre_feedback; logs/ is empty or holds both files from
\* an earlier session
LogInit ==
    /\ state = initial_state
    /\ node = "END"
    /\ trace = <<>>
    /\ oracle = NoCall
    /\ retry = NotRetrying
    /\ \E earlier \in BOOLEAN :
          /\ log_files = IF earlier THEN {SUPPORT_LOG_CSV, TICKETS_CSV} ELSE {}
          /\ support_log = IF earlier
                           THEN <<SUPPORT_LOG_HEADERS,
                                  log_result_row(FeedbackGiven("chat-0", FALSE))>>
                           ELSE <<>>
          /\ tickets = IF earlier
                       THEN <<TICKET_HEADERS, ticket_row(FeedbackGiven("chat-0", FALSE))>>
                       ELSE <<>>
    /\ \E satisfied \in [Sessions -> BOOLEAN] :
          writers = [c \in Sessions |->
                        [pc |-> "exists",
                         todo |-> LogWrites(FeedbackGiven(c, satisfied[c])),
                         file_exists |-> FALSE,
                         buffer |-> <<>>]]

LogNext ==
    \/ \E c \in Sessions : CheckExists(c)
    \/ \E c \in Sessions : OpenAppend(c)
    \/ \E c \in Sessions : Writerow(c)
    \/ \E c \in Sessions : Close(c)

LogSpec == LogInit /\ [][LogNext]_vars

\* The file is empty or begins with its header row, the only one in it
HeaderOnceAndFirst(file, headers) ==
    file # <<>> =>
        /\ file[1] = headers
        /\ \A i \in 2..Len(file) : file[i].row = "data"

\* C40: whatever the interleaving of the sessions' writes, each of the two
\* files holds its header row exactly once, before every data row.
C40_HeaderOnceAndFirst ==
    /\ HeaderOnceAndFirst(support_log, SUPPORT_LOG_HEADERS)
    /\ HeaderOnceAndFirst(tickets, TICKET_HEADERS)
====
